---- MODULE Spec2Model ----
(***************************************************************************)
(* Multi-source event synchronization cache of obsidian-full-calendar.     *)
(*                                                                         *)
(* Modelled from the source: FullNoteCalendar (src/calendars/              *)
(* FullNoteCalendar.ts), GoogleCalendar (src/calendars/GoogleCalendar.ts), *)
(* the file-watch handlers of the plugin (src/main.ts) and the edit modal  *)
(* (src/ui/event_modal.ts).  EventStore, EventCache, the vault adapter and *)
(* the daily-note and ICS calendars are modelled from spec.md sections 3,  *)
(* 4.1, 4.2, 4.3 and 6.                                                    *)
(*                                                                         *)
(* A path is a sequence of tokens: "/" , "\\" or a path segment.           *)
(* Spec is the plugin over a vault of notes; SpecRemote is the plugin over *)
(* the remote calendars, with the edit modal.                              *)
(***************************************************************************)
EXTENDS Integers, Sequences, FiniteSets, TLC

VARIABLES
    files,      \* vault: normalized path -> frontmatter content
    notifs,     \* file-watch notifications not yet delivered (FIFO)
    store,      \* EventStore: id -> [event, cal, loc]
    populated,  \* cache state: FALSE = unpopulated, TRUE = ready
    gcal,       \* GoogleCalendar.events (snapshot of the last revalidate)
    ical,       \* snapshot held by the read-only ICS backend
    upstream,   \* state of the remote servers: cal -> set of remote events
    editing,    \* edit modal: id and calendar captured by launchEditModal
    steps,      \* user and external operations performed so far
    last,       \* the operation that produced this state, and its effects
    sources,    \* settings.calendarSources: the persisted source descriptors
    calendars,  \* the backends registered by the latest reset
    generation, \* number of resets of the cache
    populating, \* cache state: TRUE while populate() is in progress
    pending,    \* asynchronous calls in flight: populate and revalidations
    script,     \* steps left of the command that is running
    modalOpen,      \* create modal: TRUE from open() until the actual close
    fields,         \* create modal: the title and the date of the form
    hasCreatedRef,  \* EditEvent: hasCreatedRef.current
    saveTimeoutRef, \* EditEvent: the debounce timer and the data its save will use
    saves,          \* performSave calls that await cache.addEvent
    addCalls,       \* calls of cache.addEvent made by the modal
    notices,        \* error Notices shown by the modal
    hookRuns,       \* calls of the registered before-close function
    dailyNotes,     \* the lines of each daily note
    notesBefore,    \* the daily notes as the last cleanup found them
    cleanupResult,  \* what the last cleanup returned
    gServer,        \* the events of the Google calendar, on the server
    gWritten,       \* the last event written to Google and its id
    gRead,          \* what getEvents() returned after the last revalidate()
    authService,    \* GoogleAuthService: its tokens, its calls in flight, its last answer
    clock,          \* Date.now()
    tokenStore,     \* the secret storage, the settings in memory and on disk
    timers,         \* edit modal: the timeouts of setTimeout that have not fired
    calendarIndex,  \* edit modal: the calendar selected in the form
    beforeCloseRef, \* ReactModal: TRUE when a function to run before the close is registered
    authFlow        \* startAuthFlow: its server, its promise and its calls in flight

vars == <<files, notifs, store, populated, gcal, ical, upstream, editing, steps, last,
          sources, calendars, generation, populating, pending, script,
          modalOpen, fields, hasCreatedRef, saveTimeoutRef, saves, addCalls, notices,
          hookRuns, dailyNotes, notesBefore, cleanupResult, gServer, gWritten, gRead,
          authService, clock, tokenStore, timers, calendarIndex, beforeCloseRef,
          authFlow>>

\* the state of the cache lifecycle
lifecycle == <<sources, calendars, generation, populating, pending, script>>

\* the state of the create modal
createModal == <<modalOpen, fields, hasCreatedRef, saveTimeoutRef, saves, addCalls,
                 notices, hookRuns>>

\* the state of the plugin outside the cache
\* the daily notes and the cleanup command
cleanup == <<dailyNotes, notesBefore, cleanupResult>>

\* the Google calendar with the fields of its events that carry the colour
colours == <<gServer, gWritten, gRead>>

\* the Google authorization and where its tokens are kept
auth == <<authService, clock, tokenStore>>

\* the state of a modal that the create modal does not use, and the
\* function its content has registered
editModal == <<timers, calendarIndex, beforeCloseRef>>

plugin == <<createModal, cleanup, colours, auth, editModal, authFlow>>

\* the result of a cleanup that has not run
NoResult == [filesCleaned |-> 0, duplicatesRemoved |-> 0, ran |-> FALSE]

\* no daily note is looked at
NoCleanup ==
    /\ dailyNotes = <<>>
    /\ notesBefore = <<>>
    /\ cleanupResult = NoResult

\* nothing was written to Google
NothingWritten == [id |-> "", title |-> "", type |-> "", color |-> "", ok |-> FALSE]

\* nothing was read back
NothingRead == [synced |-> FALSE, events |-> <<>>]

\* the Google calendar is not looked at with its colours
NoColours ==
    /\ gServer = {}
    /\ gWritten = NothingWritten
    /\ gRead = NothingRead

\* this.tokens = null; an access token is the instant until which the
\* server accepts it, 0 for none
NoTokens == [present |-> FALSE, accessToken |-> 0, refreshToken |-> "", expiresAt |-> 0]

\* the empty tokens revokeAuth hands to onTokensUpdated
EmptyTokens == [present |-> TRUE, accessToken |-> 0, refreshToken |-> "", expiresAt |-> 0]

\* no call of the service has returned
NoAnswer == [op |-> "", res |-> "", token |-> 0, calledAt |-> 0]

\* startAuthFlow was not called
NoFlow ==
    [server |-> "none", settled |-> FALSE, promise |-> "none", exchanges |-> {},
     timer |-> FALSE, successes |-> 0, asked |-> FALSE]

\* the plugin without its Google authorization
NoAuth ==
    /\ authFlow = NoFlow
    /\ authService = [tokens |-> NoTokens, calls |-> {}, answer |-> NoAnswer]
    /\ clock = 0
    /\ tokenStore = [storage |-> "none", secret |-> NoTokens, memory |-> NoTokens,
                     disk |-> NoTokens, updates |-> <<>>, write |-> "none"]

\* no timer is armed
NoTimer == [title |-> "", date |-> "", armed |-> FALSE]

\* no create modal has been opened
NoCreateModal ==
    /\ modalOpen = FALSE
    /\ fields = [title |-> "", date |-> ""]
    /\ hasCreatedRef = FALSE
    /\ saveTimeoutRef = NoTimer
    /\ saves = {}
    /\ addCalls = 0
    /\ notices = 0
    /\ hookRuns = 0
    /\ timers = {}
    /\ calendarIndex = ""
    /\ beforeCloseRef = FALSE

-----------------------------------------------------------------------------
(* Bounds *)

MaxOps == 2
PageSize == 2

Titles == {"S", "T"}
Dates == {"d1"}
ExternalNames == {"moved.md"}

-----------------------------------------------------------------------------
(* Events, locations, ids *)

UserEvents == [title : Titles, date : Dates, id : {""}]

NoPath == <<>>
NoLoc == [path |-> NoPath, line |-> 0]
NoId == [path |-> NoPath, title |-> "", date |-> "", nid |-> ""]

basenameFromEvent(event) == event.date \o " " \o event.title

filenameForEvent(event) == basenameFromEvent(event) \o ".md"

FileNames == {filenameForEvent(e) : e \in UserEvents} \cup ExternalNames

BaseNames == {basenameFromEvent(e) : e \in UserEvents} \cup {"moved"}

\* TFile.basename: the name without its extension
Basename(name) == CHOOSE b \in BaseNames : b \o ".md" = name

-----------------------------------------------------------------------------
(* Vault paths *)

RECURSIVE ReplaceBackslashes(_)
ReplaceBackslashes(p) ==
    IF p = <<>> THEN <<>>
    ELSE <<IF Head(p) = "\\" THEN "/" ELSE Head(p)>> \o ReplaceBackslashes(Tail(p))

RECURSIVE CollapseSlashes(_)
CollapseSlashes(p) ==
    IF Len(p) < 2 THEN p
    ELSE IF Head(p) = "/" /\ Head(Tail(p)) = "/" THEN CollapseSlashes(Tail(p))
    ELSE <<Head(p)>> \o CollapseSlashes(Tail(p))

StripLeadingSlash(p) == IF p # <<>> /\ Head(p) = "/" THEN Tail(p) ELSE p

normalizeVaultPath(path) ==
    StripLeadingSlash(CollapseSlashes(ReplaceBackslashes(path)))

\* joinVaultPath without normalizing the directory
joinVaultPath_raw(directory, filename) ==
    IF directory = <<>> THEN <<filename>> ELSE directory \o <<"/">> \o <<filename>>

joinVaultPath(directory, filename) ==
    LET dir == normalizeVaultPath(directory)
    IN  IF dir = <<>> THEN <<filename>>
        ELSE normalizeVaultPath(dir \o <<"/">> \o <<filename>>)

\* TAbstractFile.name and TAbstractFile.parent.path of a file path
FileName(p) == p[Len(p)]
ParentPath(p) == IF Len(p) >= 3 THEN SubSeq(p, 1, Len(p) - 2) ELSE <<"/">>

-----------------------------------------------------------------------------
(* Registered backends (the calendar sources of the settings) *)

Cals == {"A", "B", "D", "G", "I"}

\* "M" is a local source whose directory is not a folder of the vault
CalType == [c \in Cals \cup {"M"} |->
    IF c \in {"A", "B", "M"} THEN "local"
    ELSE IF c = "D" THEN "dailynote"
    ELSE IF c = "G" THEN "gcal" ELSE "ical"]

\* FullNoteCalendar.directory, as typed in the settings
CalDirectory == [c \in {"A", "B", "M"} |->
    IF c = "A" THEN <<"A">> ELSE IF c = "B" THEN <<"/", "B">> ELSE <<"gone">>]

LocalCals == {c \in Cals : CalType[c] = "local"}
RemoteCals == {c \in Cals : CalType[c] \in {"gcal", "ical"}}
IsEditable(c) == CalType[c] \in {"local", "dailynote"}
IsFileBased(c) == CalType[c] \in {"local", "dailynote"}

\* a persisted source descriptor: its type tag, the calendar it names, and
\* whether the fields of its type and its color are present and valid
CalendarInfo(type, id, valid) == [type |-> type, id |-> id, valid |-> valid]

NoInfo == CalendarInfo("", "", FALSE)

OptionTypes == {"local", "dailynote", "ical", "caldav", "gcal"}

safeParseCalendarInfo(obj) ==
    IF obj.type \in OptionTypes /\ obj.valid THEN obj ELSE NoInfo

NoCalendar == ""

\* a gcal factory that does not look at the auth service
calendarInitializers_gcalAlways(type, info, googleAuth) ==
    IF type = "FOR_TEST_ONLY" THEN NoCalendar
    ELSE IF info.type # type THEN NoCalendar
    ELSE info.id

\* the adapter factory registered under the key `type`; googleAuth is FALSE
\* while the plugin has no auth service
calendarInitializers(type, info, googleAuth) ==
    IF type = "FOR_TEST_ONLY" THEN NoCalendar
    ELSE IF info.type # type THEN NoCalendar
    ELSE IF type = "gcal" /\ ~googleAuth THEN NoCalendar
    ELSE info.id

RECURSIVE Cache_reset(_, _)
\* the adapters of reset(sources): one per descriptor that parses and whose
\* factory yields an adapter, in the order of the descriptors
Cache_reset(infos, googleAuth) ==
    IF infos = <<>> THEN <<>>
    ELSE LET info == safeParseCalendarInfo(Head(infos))
             cal == IF info = NoInfo THEN NoCalendar
                    ELSE calendarInitializers(info.type, info, googleAuth)
         IN  (IF cal = NoCalendar THEN <<>> ELSE <<cal>>)
             \o Cache_reset(Tail(infos), googleAuth)

\* the sources of the settings behind the backends of Cals
DefaultSources ==
    <<CalendarInfo("local", "A", TRUE), CalendarInfo("local", "B", TRUE),
      CalendarInfo("dailynote", "D", TRUE), CalendarInfo("gcal", "G", TRUE),
      CalendarInfo("ical", "I", TRUE)>>

\* the folders of the vault
Folders == {<<"A">>, <<"B">>}

FilePaths == {d \o <<"/", n>> : d \in Folders, n \in FileNames}

-----------------------------------------------------------------------------
(* Vault adapter and the notifications the host raises *)

InvalidContent == [ok |-> FALSE, title |-> "", date |-> ""]

Contents == {InvalidContent} \cup
            [ok : {TRUE}, title : Titles \cup {""}, date : Dates]

\* file is TRUE when the notification carries a TFile, FALSE for a TFolder
Changed(p) == [kind |-> "changed", path |-> p, old |-> NoPath, file |-> TRUE]
Renamed(p, old) == [kind |-> "rename", path |-> p, old |-> old, file |-> TRUE]
Deleted(p) == [kind |-> "delete", path |-> p, old |-> NoPath, file |-> TRUE]
FolderRenamed(p, old) == [kind |-> "rename", path |-> p, old |-> old, file |-> FALSE]
FolderDeleted(p) == [kind |-> "delete", path |-> p, old |-> NoPath, file |-> FALSE]

\* a handler that takes every notification for a file
IsTFile_any(n) == TRUE

\* file instanceof TFile
IsTFile(n) == n.file

\* the metadata cache raises one "changed" per file while one is pending
Emit(q, n) ==
    IF n.kind = "changed" /\ \E i \in 1..Len(q) : q[i] = n THEN q ELSE Append(q, n)

RECURSIVE Repath(_, _, _)
\* a pending notification holds the TFile, whose path follows a rename
Repath(q, p, newPath) ==
    IF q = <<>> THEN <<>>
    ELSE <<IF Head(q).path = p /\ Head(q).kind # "delete"
           THEN [Head(q) EXCEPT !.path = newPath] ELSE Head(q)>>
         \o Repath(Tail(q), p, newPath)

getFileByPath(F, p) == p \in DOMAIN F

getAbstractFileByPath(F, p) == p \in DOMAIN F \/ p \in Folders

Vault_create(W, p, c) ==
    [files |-> (p :> c) @@ W.files, notifs |-> Emit(W.notifs, Changed(p))]

\* the vault refuses to rename onto an existing path
RenameSucceeds(W, newPath, io) ==
    io # "renameFails" /\ ~getAbstractFileByPath(W.files, newPath)

Vault_rename(W, p, newPath) ==
    [files |-> [x \in (DOMAIN W.files \ {p}) \cup {newPath} |->
                    IF x = newPath THEN W.files[p] ELSE W.files[x]],
     notifs |-> Emit(Emit(Repath(W.notifs, p, newPath), Renamed(newPath, p)),
                     Changed(newPath))]

Vault_rewrite(W, p, c) ==
    [files |-> [W.files EXCEPT ![p] = c], notifs |-> Emit(W.notifs, Changed(p))]

Vault_delete(W, p) ==
    [files |-> [x \in DOMAIN W.files \ {p} |-> W.files[x]],
     notifs |-> Emit(W.notifs, Deleted(p))]

-----------------------------------------------------------------------------
(* FullNoteCalendar: frontmatter *)

newFrontmatter(event) == [ok |-> TRUE, title |-> event.title, date |-> event.date]

modifyFrontmatterString(page, event) ==
    [page EXCEPT !.ok = TRUE, !.title = event.title, !.date = event.date]

\* validateEvent(frontmatter) yields null unless the frontmatter is an event
getEventsInFile(F, p) ==
    IF p \notin DOMAIN F \/ ~F[p].ok THEN <<>>
    ELSE <<[event |-> [title |-> IF F[p].title = "" THEN Basename(FileName(p))
                                 ELSE F[p].title,
                       date |-> F[p].date,
                       id |-> ""],
            loc |-> [path |-> p, line |-> 0]]>>

Children(F, dir) ==
    {p \in DOMAIN F : /\ Len(p) = Len(dir) + 2
                      /\ SubSeq(p, 1, Len(dir)) = dir
                      /\ p[Len(dir) + 1] = "/"}

\* FullNoteCalendar.getEvents: the events of the files directly in the folder
getEvents(F, cal) ==
    LET dirPath == normalizeVaultPath(CalDirectory[cal])
    IN  IF dirPath \notin Folders THEN [ok |-> FALSE, events |-> {}]
        ELSE [ok |-> TRUE,
              events |-> {getEventsInFile(F, p)[1] :
                            p \in {x \in Children(F, dirPath) :
                                      getEventsInFile(F, x) # <<>>}}]

-----------------------------------------------------------------------------
(* Event store *)

\* deterministic id: path and content for a file-based event, the backend's
\* own id otherwise
IdFor(event, loc) ==
    IF event.id # ""
    THEN [path |-> NoPath, title |-> "", date |-> "", nid |-> event.id]
    ELSE [path |-> loc.path, title |-> event.title, date |-> event.date, nid |-> ""]

OwnersOf(st, loc) == {i \in DOMAIN st : st[i].loc = loc /\ IsFileBased(st[i].cal)}

\* a store that never checks who owns a location
LocationTaken_unchecked(st, id, cal, loc) == FALSE

LocationTaken(st, id, cal, loc) ==
    loc # NoLoc /\ IsFileBased(cal) /\ OwnersOf(st, loc) \ {id} # {}

Store_add(st, cal, event, loc) ==
    LET id == IdFor(event, loc)
    IN  IF id \in DOMAIN st
        THEN [ok |-> FALSE, err |-> "id already in event store", store |-> st, id |-> id]
        ELSE IF LocationTaken(st, id, cal, loc)
        THEN [ok |-> FALSE, err |-> "duplicate location", store |-> st, id |-> id]
        ELSE [ok |-> TRUE, err |-> "",
              store |-> (id :> [event |-> event, cal |-> cal, loc |-> loc]) @@ st,
              id |-> id]

\* a delete that reports success for an id the Store does not hold
Store_delete_silent(st, id) ==
    [ok |-> TRUE, err |-> "", store |-> [i \in DOMAIN st \ {id} |-> st[i]]]

Store_delete(st, id) ==
    IF id \notin DOMAIN st
    THEN [ok |-> FALSE, err |-> "not present in event store", store |-> st]
    ELSE [ok |-> TRUE, err |-> "", store |-> [i \in DOMAIN st \ {id} |-> st[i]]]

Store_updateLocation(st, id, cal, loc) ==
    IF id \notin DOMAIN st
    THEN [ok |-> FALSE, err |-> "not present in event store", store |-> st]
    ELSE IF LocationTaken(st, id, cal, loc)
    THEN [ok |-> FALSE, err |-> "duplicate location", store |-> st]
    ELSE [ok |-> TRUE, err |-> "",
          store |-> [st EXCEPT ![id].loc = loc, ![id].cal = cal]]

Store_updateEvent(st, id, event) ==
    IF id \notin DOMAIN st
    THEN [ok |-> FALSE, err |-> "not present in event store", store |-> st]
    ELSE [ok |-> TRUE, err |-> "", store |-> [st EXCEPT ![id].event = event]]

idsAtPath(st, p) == {i \in DOMAIN st : st[i].loc.path = p}

eventsByBackend(st, cal) == {i \in DOMAIN st : st[i].cal = cal}

RECURSIVE AddAll(_, _, _)
AddAll(st, cal, responses) ==
    IF responses = {} THEN st
    ELSE LET r == CHOOSE x \in responses : TRUE
         IN  AddAll(Store_add(st, cal, r.event, r.loc).store, cal, responses \ {r})

-----------------------------------------------------------------------------
(* FullNoteCalendar: operations *)

IOOutcomes == {"ok", "renameFails", "rewriteFails", "writeFails"}

Result(res, W, st, trace) ==
    [res |-> res, files |-> W.files, notifs |-> W.notifs, store |-> st, trace |-> trace]

createEvent(W, cal, event, io) ==
    LET path == joinVaultPath(CalDirectory[cal], filenameForEvent(event))
    IN  IF getAbstractFileByPath(W.files, path)
        THEN [res |-> "already exists", W |-> W, loc |-> NoLoc, trace |-> <<>>]
        ELSE IF io = "writeFails"
        THEN [res |-> "create failed", W |-> W, loc |-> NoLoc, trace |-> <<>>]
        ELSE [res |-> "ok", W |-> Vault_create(W, path, newFrontmatter(event)),
              loc |-> [path |-> path, line |-> 0], trace |-> <<"vault.create">>]

getNewLocation(F, location, event) ==
    IF location.line # 0
    THEN [res |-> "Note calendar cannot handle inline events.", loc |-> NoLoc]
    ELSE LET normalizedPath == normalizeVaultPath(location.path)
         IN  IF ~getFileByPath(F, normalizedPath)
             THEN [res |-> "File either doesn't exist or is a folder.", loc |-> NoLoc]
             ELSE [res |-> "ok",
                   loc |-> [path |-> joinVaultPath(ParentPath(normalizedPath),
                                                   filenameForEvent(event)),
                            line |-> 0]]

\* the callback the cache hands to modifyEvent and move: it records the new
\* location of its event in the Store; a Store error propagates to the caller
InvokeCallback(updateCacheWithLocation, st, loc) ==
    Store_updateLocation(st, updateCacheWithLocation.id, updateCacheWithLocation.cal, loc)

\* modifyEvent with the callback invoked after the rename and the rewrite
modifyEvent_writeFirst(W, st, location, event, updateCacheWithLocation, io) ==
    LET normalizedPath == normalizeVaultPath(location.path)
        newLocation == getNewLocation(W.files, location, event)
    IN
    IF newLocation.res # "ok" THEN Result(newLocation.res, W, st, <<>>)
    ELSE
    LET mustRename == normalizedPath # newLocation.loc.path
    IN
    IF mustRename /\ ~RenameSucceeds(W, newLocation.loc.path, io)
    THEN Result("rename failed", W, st, <<>>)
    ELSE
    LET W1 == IF mustRename THEN Vault_rename(W, normalizedPath, newLocation.loc.path)
              ELSE W
        t1 == IF mustRename THEN <<"vault.rename">> ELSE <<>>
    IN
    IF io = "rewriteFails" THEN Result("rewrite failed", W1, st, t1)
    ELSE
    LET W2 == Vault_rewrite(W1, newLocation.loc.path,
                            modifyFrontmatterString(W1.files[newLocation.loc.path], event))
        cb == InvokeCallback(updateCacheWithLocation, st, newLocation.loc)
    IN  IF ~cb.ok THEN Result(cb.err, W2, st, Append(t1, "vault.rewrite"))
        ELSE Result("ok", W2, cb.store,
                    Append(Append(t1, "vault.rewrite"), "store.updateLocation"))

\* modifyEvent that tells the cache the new location before it looks at the
\* file and at the anchor of the old one
modifyEvent_callbackFirst(W, st, location, event, updateCacheWithLocation, io) ==
    LET normalizedPath == normalizeVaultPath(location.path)
        newLoc == [path |-> joinVaultPath(ParentPath(normalizedPath),
                                          filenameForEvent(event)),
                   line |-> 0]
        cb == InvokeCallback(updateCacheWithLocation, st, newLoc)
        st1 == IF cb.ok THEN cb.store ELSE st
    IN  IF ~getFileByPath(W.files, normalizedPath)
        THEN Result("File either doesn't exist or is a folder.", W, st1,
                    <<"store.updateLocation">>)
        ELSE IF location.line # 0
        THEN Result("Note calendar cannot handle inline events.", W, st1,
                    <<"store.updateLocation">>)
        ELSE modifyEvent_writeFirst(W, st, location, event, updateCacheWithLocation, io)

modifyEvent(W, st, location, event, updateCacheWithLocation, io) ==
    LET normalizedPath == normalizeVaultPath(location.path)
    IN
    IF ~getFileByPath(W.files, normalizedPath)
    THEN Result("File either doesn't exist or is a folder.", W, st, <<>>)
    ELSE
    LET newLocation == getNewLocation(W.files, location, event)
    IN
    IF newLocation.res # "ok" THEN Result(newLocation.res, W, st, <<>>)
    ELSE
    LET cb == InvokeCallback(updateCacheWithLocation, st, newLocation.loc)
    IN
    IF ~cb.ok THEN Result(cb.err, W, st, <<>>)
    ELSE
    LET t1 == <<"store.updateLocation">>
        mustRename == normalizedPath # newLocation.loc.path
    IN
    IF mustRename /\ ~RenameSucceeds(W, newLocation.loc.path, io)
    THEN Result("rename failed", W, cb.store, t1)
    ELSE
    LET W1 == IF mustRename THEN Vault_rename(W, normalizedPath, newLocation.loc.path)
              ELSE W
        t2 == IF mustRename THEN Append(t1, "vault.rename") ELSE t1
        filePath == IF mustRename THEN newLocation.loc.path ELSE normalizedPath
    IN
    IF io = "rewriteFails" THEN Result("rewrite failed", W1, cb.store, t2)
    ELSE Result("ok",
                Vault_rewrite(W1, filePath,
                              modifyFrontmatterString(W1.files[filePath], event)),
                cb.store, Append(t2, "vault.rewrite"))

\* move without the check of the line number of the source location
move_anyLine(W, st, fromLocation, toCalendar, updateCacheWithLocation, io) ==
    IF CalType[toCalendar] # "local"
    THEN Result("Event cannot be moved to a note calendar.", W, st, <<>>)
    ELSE
    LET normalizedPath == normalizeVaultPath(fromLocation.path)
        newPath == joinVaultPath(CalDirectory[toCalendar], FileName(normalizedPath))
        cb == InvokeCallback(updateCacheWithLocation, st, [path |-> newPath, line |-> 0])
    IN
    IF ~getFileByPath(W.files, normalizedPath)
    THEN Result("File not found.", W, st, <<>>)
    ELSE IF ~cb.ok THEN Result(cb.err, W, st, <<>>)
    ELSE IF ~RenameSucceeds(W, newPath, io)
    THEN Result("rename failed", W, cb.store, <<"store.updateLocation">>)
    ELSE Result("ok", Vault_rename(W, normalizedPath, newPath), cb.store,
                <<"store.updateLocation", "vault.rename">>)

move(W, st, fromLocation, toCalendar, updateCacheWithLocation, io) ==
    IF fromLocation.line # 0
    THEN Result("Note calendar cannot handle inline events.", W, st, <<>>)
    ELSE IF CalType[toCalendar] # "local"
    THEN Result("Event cannot be moved to a note calendar.", W, st, <<>>)
    ELSE
    LET normalizedPath == normalizeVaultPath(fromLocation.path)
    IN
    IF ~getFileByPath(W.files, normalizedPath)
    THEN Result("File not found.", W, st, <<>>)
    ELSE
    LET destDir == CalDirectory[toCalendar]
        newPath == joinVaultPath(destDir, FileName(normalizedPath))
        cb == InvokeCallback(updateCacheWithLocation, st, [path |-> newPath, line |-> 0])
    IN
    IF ~cb.ok THEN Result(cb.err, W, st, <<>>)
    ELSE IF ~RenameSucceeds(W, newPath, io)
    THEN Result("rename failed", W, cb.store, <<"store.updateLocation">>)
    ELSE Result("ok", Vault_rename(W, normalizedPath, newPath), cb.store,
                <<"store.updateLocation", "vault.rename">>)

\* a deleteEvent that returns quietly when the file is gone
deleteEvent_quiet(W, st, location, io) ==
    IF location.line # 0
    THEN Result("Note calendar cannot handle inline events.", W, st, <<>>)
    ELSE IF ~getFileByPath(W.files, normalizeVaultPath(location.path))
    THEN Result("ok", W, st, <<>>)
    ELSE IF io = "writeFails" THEN Result("delete failed", W, st, <<>>)
    ELSE Result("ok", Vault_delete(W, normalizeVaultPath(location.path)), st,
                <<"vault.delete">>)

deleteEvent(W, st, location, io) ==
    IF location.line # 0
    THEN Result("Note calendar cannot handle inline events.", W, st, <<>>)
    ELSE
    LET normalizedPath == normalizeVaultPath(location.path)
    IN
    IF ~getFileByPath(W.files, normalizedPath)
    THEN Result("File not found.", W, st, <<>>)
    ELSE IF io = "writeFails" THEN Result("delete failed", W, st, <<>>)
    ELSE Result("ok", Vault_delete(W, normalizedPath), st, <<"vault.delete">>)

-----------------------------------------------------------------------------
(* GoogleCalendar *)

GIds == {"g1", "g2", "g3"}

\* start is "" when the remote event has no start, else its date
GoogleEvent(id, summary, start, status) ==
    [id |-> id, summary |-> summary, start |-> start, status |-> status]

GOrder == <<"g1", "g2", "g3">>

RECURSIVE ListInOrder(_, _)
\* the list the server returns for its set of events
ListInOrder(order, S) ==
    IF order = <<>> THEN <<>>
    ELSE (IF \E e \in S : e.id = Head(order)
          THEN <<CHOOSE e \in S : e.id = Head(order)>> ELSE <<>>)
         \o ListInOrder(Tail(order), S)

\* a filter that keeps the cancelled events
NotCancelled_all(e) == TRUE

NotCancelled(e) == e.status # "cancelled"

RECURSIVE FetchPages(_, _, _, _)
\* the do-while of revalidate: one request per page; request number failAt
\* fails (network error or an error in the response)
FetchPages(items, pageToken, allEvents, failAt) ==
    LET first == pageToken * PageSize + 1
        lastIdx == IF (pageToken + 1) * PageSize < Len(items)
                   THEN (pageToken + 1) * PageSize ELSE Len(items)
        page == SubSeq(items, first, lastIdx)
        nextPageToken == IF lastIdx < Len(items) THEN pageToken + 1 ELSE 0
    IN  IF failAt = pageToken + 1
        THEN [ok |-> FALSE, events |-> allEvents, requests |-> pageToken + 1]
        ELSE IF nextPageToken # 0
        THEN FetchPages(items, nextPageToken,
                        allEvents \o SelectSeq(page, NotCancelled), failAt)
        ELSE [ok |-> TRUE, events |-> allEvents \o SelectSeq(page, NotCancelled),
              requests |-> pageToken + 1]

\* revalidate pushing the fetched pages onto this.events as they arrive
revalidate_pushes(events, items, failAt) ==
    IF failAt = -1 THEN [ok |-> FALSE, events |-> events, requests |-> 0]
    ELSE LET f == FetchPages(items, 0, <<>>, failAt)
         IN  [ok |-> f.ok, events |-> events \o f.events, requests |-> f.requests]

\* revalidate assigning this.events before the pages are all fetched
revalidate_partial(events, items, failAt) ==
    IF failAt = -1 THEN [ok |-> FALSE, events |-> events, requests |-> 0]
    ELSE LET f == FetchPages(items, 0, <<>>, failAt)
         IN  [ok |-> f.ok, events |-> f.events, requests |-> f.requests]

\* failAt = -1: no valid access token; 0: every request succeeds
revalidate(events, items, failAt) ==
    IF failAt = -1 THEN [ok |-> FALSE, events |-> events, requests |-> 0]
    ELSE LET f == FetchPages(items, 0, <<>>, failAt)
         IN  IF f.ok THEN [ok |-> TRUE, events |-> f.events, requests |-> f.requests]
             ELSE [ok |-> FALSE, events |-> events, requests |-> f.requests]

NoEvent == [title |-> "", date |-> "", id |-> ""]

googleEventToOFC(gEvent) ==
    IF gEvent.summary = "" /\ gEvent.start = "" THEN NoEvent
    ELSE IF gEvent.start # ""
    THEN [title |-> IF gEvent.summary = "" THEN "(No title)" ELSE gEvent.summary,
          date |-> gEvent.start,
          id |-> gEvent.id]
    ELSE NoEvent

RECURSIVE GoogleGetEvents(_)
\* GoogleCalendar.getEvents: the snapshot converted, unconvertible events dropped
GoogleGetEvents(events) ==
    IF events = <<>> THEN <<>>
    ELSE (IF googleEventToOFC(Head(events)) = NoEvent THEN <<>>
          ELSE <<[event |-> googleEventToOFC(Head(events)), loc |-> NoLoc]>>)
         \o GoogleGetEvents(Tail(events))

ofcToGoogleEvent(event) == [summary |-> event.title, start |-> event.date]

\* the server's answer to POST: the new event under an id of the server's choice
createGoogleEvent(up, event, newId, apiOk) ==
    IF ~apiOk THEN [ok |-> FALSE, up |-> up, id |-> ""]
    ELSE [ok |-> TRUE, id |-> newId,
          up |-> up \cup {GoogleEvent(newId, ofcToGoogleEvent(event).summary,
                                      ofcToGoogleEvent(event).start, "confirmed")}]

\* PATCH fails when the request fails or the event is unknown to the server
updateGoogleEvent(up, googleEventId, event, apiOk) ==
    IF ~apiOk \/ ~\E g \in up : g.id = googleEventId THEN [ok |-> FALSE, up |-> up]
    ELSE [ok |-> TRUE,
          up |-> {IF g.id = googleEventId
                  THEN [g EXCEPT !.summary = ofcToGoogleEvent(event).summary,
                                 !.start = ofcToGoogleEvent(event).start]
                  ELSE g : g \in up}]

deleteGoogleEvent(up, googleEventId, apiOk) ==
    IF ~apiOk THEN [ok |-> FALSE, up |-> up]
    ELSE [ok |-> TRUE, up |-> {g \in up : g.id # googleEventId}]

Range(seq) == {seq[i] : i \in 1..Len(seq)}

-----------------------------------------------------------------------------
(* Event cache: remote backends *)

\* diff of a backend's records against its new snapshot, by backend-native id
Cache_applyRevalidation(st, cal, responses) ==
    LET old == eventsByBackend(st, cal)
        new == {IdFor(r.event, r.loc) : r \in responses}
        ResponseOf(i) == CHOOSE r \in responses : IdFor(r.event, r.loc) = i
        kept == [i \in (DOMAIN st \ old) \cup (old \cap new) |->
                    IF i \in old THEN [st[i] EXCEPT !.event = ResponseOf(i).event]
                    ELSE st[i]]
    IN  AddAll(kept, cal, {r \in responses : IdFor(r.event, r.loc) \notin old})

Repeat(tag, n) == [i \in 1..n |-> tag]

\* the requests and the Store mutations of one revalidation, in order
RevalidationTrace(requests, st, st2, cal) ==
    LET old == eventsByBackend(st, cal)
        new == eventsByBackend(st2, cal)
    IN  Repeat("remote.list", requests)
        \o Repeat("store.delete", Cardinality(old \ new))
        \o Repeat("store.add", Cardinality(new \ old))
        \o Repeat("store.updateEvent",
                  Cardinality({i \in old \cap new : st[i] # st2[i]}))

RemoteResult(res, up, st, trace) ==
    [res |-> res, up |-> up, store |-> st, trace |-> trace]

Cache_addEventGoogle(up, st, cal, event, newId, apiOk) ==
    LET c == createGoogleEvent(up, event, newId, apiOk)
    IN
    IF ~c.ok THEN RemoteResult("Failed to create event", up, st, <<>>)
    ELSE
    LET a == Store_add(st, cal, [event EXCEPT !.id = c.id], NoLoc)
    IN  IF ~a.ok THEN RemoteResult(a.err, c.up, st, <<"remote.create">>)
        ELSE RemoteResult("ok", c.up, a.store, <<"remote.create", "store.add">>)

Cache_updateEventGoogle(up, st, id, newEvent, apiOk) ==
    IF id \notin DOMAIN st THEN RemoteResult("not present in event store", up, st, <<>>)
    ELSE
    LET u == updateGoogleEvent(up, st[id].event.id, newEvent, apiOk)
    IN  IF ~u.ok THEN RemoteResult("Failed to update event", up, st, <<>>)
        ELSE RemoteResult("ok", u.up,
                          Store_updateEvent(st, id,
                              [newEvent EXCEPT !.id = st[id].event.id]).store,
                          <<"remote.update", "store.updateEvent">>)

Cache_deleteEventGoogle(up, st, id, apiOk) ==
    IF id \notin DOMAIN st THEN RemoteResult("not present in event store", up, st, <<>>)
    ELSE
    LET d == deleteGoogleEvent(up, st[id].event.id, apiOk)
    IN  IF ~d.ok THEN RemoteResult("Failed to delete event", up, st, <<>>)
        ELSE RemoteResult("ok", d.up, Store_delete(st, id).store,
                          <<"remote.delete", "store.delete">>)

-----------------------------------------------------------------------------
(* Edit modal *)

NoEdit == [id |-> NoId, cal |-> ""]

\* the calendars offered by the modal: editable and Google calendars
ModalCalendars == {c \in Cals : IsEditable(c) \/ CalType[c] = "gcal"}

\* a test that knows only one of the two messages
isStale_notRegisteredOnly(msg) == msg = "not registered"

isStale(msg) == msg = "not present in event store" \/ msg = "not registered"

NoticeFor(msg) ==
    IF msg = "ok" THEN "" ELSE IF isStale(msg) THEN "stale" ELSE "error"

-----------------------------------------------------------------------------
(* Event cache: user operations and file reconciliation *)

\* the local backends whose directory holds the file
CalendarsOfPath(p) ==
    {c \in LocalCals : normalizeVaultPath(CalDirectory[c]) = ParentPath(p)}

Cache_addEvent(W, st, cal, event, io) ==
    IF CalType[cal] # "local" THEN Result("calendar is not editable", W, st, <<>>)
    ELSE
    LET c == createEvent(W, cal, event, io)
    IN
    IF c.res # "ok" THEN Result(c.res, W, st, <<>>)
    ELSE
    LET a == Store_add(st, cal, event, c.loc)
    IN  IF ~a.ok THEN Result(a.err, c.W, st, c.trace)
        ELSE Result("ok", c.W, a.store, Append(c.trace, "store.add"))

WithUpstream(r, up) ==
    [res |-> r.res, files |-> r.files, notifs |-> r.notifs, up |-> up,
     store |-> r.store, trace |-> r.trace]

WithWorld(r, W) ==
    [res |-> r.res, files |-> W.files, notifs |-> W.notifs, up |-> r.up,
     store |-> r.store, trace |-> r.trace]

Rejected(msg, W, up, st) == WithUpstream(Result(msg, W, st, <<>>), up)

Cache_updateEventWithId(W, up, st, id, newEvent, io) ==
    IF id \notin DOMAIN st THEN Rejected("not present in event store", W, up, st)
    ELSE IF CalType[st[id].cal] = "gcal"
    THEN WithWorld(Cache_updateEventGoogle(up, st, id, newEvent, io = "ok"), W)
    ELSE IF CalType[st[id].cal] # "local"
    THEN Rejected("calendar is not editable", W, up, st)
    ELSE
    LET m == modifyEvent(W, st, st[id].loc, newEvent,
                         [id |-> id, cal |-> st[id].cal], io)
    IN  IF m.res # "ok" THEN WithUpstream(m, up)
        ELSE WithUpstream(
                [m EXCEPT !.store = Store_updateEvent(m.store, id, newEvent).store,
                          !.trace = Append(m.trace, "store.updateEvent")], up)

Cache_moveEventToCalendar(W, up, st, id, dest, io) ==
    IF id \notin DOMAIN st THEN Rejected("not present in event store", W, up, st)
    ELSE IF ~IsEditable(st[id].cal) \/ ~IsEditable(dest)
    THEN Rejected("calendar is not editable", W, up, st)
    ELSE IF CalType[st[id].cal] # "local"
    THEN Rejected("inline events cannot be moved", W, up, st)
    ELSE WithUpstream(move(W, st, st[id].loc, dest,
                           [id |-> id, cal |-> dest], io), up)

Cache_deleteEvent(W, up, st, id, io) ==
    IF id \notin DOMAIN st THEN Rejected("not present in event store", W, up, st)
    ELSE IF CalType[st[id].cal] = "gcal"
    THEN WithWorld(Cache_deleteEventGoogle(up, st, id, io = "ok"), W)
    ELSE IF CalType[st[id].cal] # "local"
    THEN Rejected("calendar is not editable", W, up, st)
    ELSE
    LET d == deleteEvent(W, st, st[id].loc, io)
    IN  IF d.res # "ok" THEN WithUpstream(d, up)
        ELSE WithUpstream(
                [d EXCEPT !.store = Store_delete(d.store, id).store,
                          !.trace = Append(d.trace, "store.delete")], up)

Cache_deleteEventsAtPath(st, p) ==
    [i \in DOMAIN st \ idsAtPath(st, p) |-> st[i]]

\* diff of the records at the path against the events the file now yields
Cache_fileUpdated(F, st, p) ==
    IF CalendarsOfPath(p) = {} THEN st
    ELSE
    LET cal == CHOOSE c \in CalendarsOfPath(p) : TRUE
        old == idsAtPath(st, p)
        new == getEventsInFile(F, p)
    IN
    IF new = <<>> THEN Cache_deleteEventsAtPath(st, p)
    ELSE IF old = {} THEN Store_add(st, cal, new[1].event, new[1].loc).store
    ELSE LET id == CHOOSE i \in old : TRUE
         IN  [i \in (DOMAIN st \ old) \cup {id} |->
                 IF i = id THEN [st[i] EXCEPT !.event = new[1].event] ELSE st[i]]

RECURSIVE PopulateAll(_, _, _)
PopulateAll(F, st, cals) ==
    IF cals = {} THEN st
    ELSE LET c == CHOOSE x \in cals : TRUE
             r == getEvents(F, c)
         IN  PopulateAll(F, AddAll(st, c, r.events), cals \ {c})

-----------------------------------------------------------------------------
(* State machine *)

Op(op, res, id, cal, trace) ==
    [op |-> op, res |-> res, id |-> id, cal |-> cal, trace |-> trace, notice |-> ""]

\* the vault at load: any of two notes in the folder of calendar A, each an
\* event with or without a title, or a note that is no event
InitialVaults ==
    UNION {[S -> Contents] : S \in SUBSET {<<"A", "/", "d1 S.md">>, <<"A", "/", "moved.md">>}}

Init ==
    /\ files \in InitialVaults
    /\ notifs = <<>>
    /\ store = <<>>
    /\ populated = FALSE
    /\ gcal = <<>>
    /\ ical = {}
    /\ upstream = [c \in RemoteCals |-> {}]
    /\ editing = NoEdit
    /\ steps = 0
    /\ last = Op("init", "ok", NoId, "", <<>>)
    /\ sources = DefaultSources
    /\ calendars = Cache_reset(DefaultSources, TRUE)
    /\ generation = 0
    /\ populating = FALSE
    /\ pending = {}
    /\ script = <<>>
    /\ NoCreateModal
    /\ NoCleanup
    /\ NoColours
    /\ NoAuth

World == [files |-> files, notifs |-> notifs]

\* an operation starts once the pending notifications are delivered
Begin ==
    /\ populated
    /\ notifs = <<>>
    /\ steps < MaxOps
    /\ steps' = steps + 1

Commit(r, op, id, cal) ==
    /\ files' = r.files
    /\ notifs' = r.notifs
    /\ store' = r.store
    /\ upstream' = [upstream EXCEPT !["G"] = r.up]
    /\ last' = Op(op, r.res, id, cal, r.trace)

Populate ==
    /\ ~populated
    /\ populated' = TRUE
    /\ store' = PopulateAll(files, <<>>, LocalCals)
    /\ last' = Op("populate", "ok", NoId, "", <<>>)
    /\ UNCHANGED <<files, notifs, gcal, ical, upstream, editing, steps, lifecycle,
                   plugin>>

AddEvent ==
    /\ Begin
    /\ \E cal \in Cals \ {"G"}, event \in UserEvents, io \in {"ok", "writeFails"} :
          Commit(WithUpstream(Cache_addEvent(World, store, cal, event, io),
                              upstream["G"]), "addEvent", NoId, cal)
    /\ UNCHANGED <<populated, gcal, ical, editing, lifecycle, plugin>>

UpdateEventWithId ==
    /\ Begin
    /\ \E id \in DOMAIN store, newEvent \in UserEvents,
          io \in {"ok", "renameFails", "rewriteFails"} :
          Commit(Cache_updateEventWithId(World, upstream["G"], store, id, newEvent, io),
                 "updateEventWithId", id, store[id].cal)
    /\ UNCHANGED <<populated, gcal, ical, editing, lifecycle, plugin>>

MoveEventToCalendar ==
    /\ Begin
    /\ \E id \in DOMAIN store, dest \in Cals, io \in {"ok", "renameFails"} :
          Commit(Cache_moveEventToCalendar(World, upstream["G"], store, id, dest, io),
                 "moveEventToCalendar", id, dest)
    /\ UNCHANGED <<populated, gcal, ical, editing, lifecycle, plugin>>

DeleteEvent ==
    /\ Begin
    /\ \E id \in DOMAIN store, io \in {"ok", "writeFails"} :
          Commit(Cache_deleteEvent(World, upstream["G"], store, id, io),
                 "deleteEvent", id, store[id].cal)
    /\ UNCHANGED <<populated, gcal, ical, editing, lifecycle, plugin>>

\* a cache that serves its operations in every state
Cache_isReady_always(pop, isPopulating) == TRUE

\* the cache serves operations other than reset and populate only when it is
\* populated: not before populate, and not while populate is in progress
Cache_isReady(pop, isPopulating) == pop /\ ~isPopulating

\* the "changed" handler of the metadata cache
OnChanged ==
    /\ Cache_isReady(populated, populating)
    /\ notifs # <<>> /\ Head(notifs).kind = "changed"
    /\ notifs' = Tail(notifs)
    /\ store' = Cache_fileUpdated(files, store, Head(notifs).path)
    /\ last' = Op("fileUpdated", "ok", NoId, "", <<>>)
    /\ UNCHANGED <<files, populated, gcal, ical, upstream, editing, steps, lifecycle,
                   plugin>>

\* the "rename" handler of the vault
OnRename ==
    /\ Cache_isReady(populated, populating)
    /\ notifs # <<>> /\ Head(notifs).kind = "rename"
    /\ notifs' = Tail(notifs)
    /\ IF IsTFile(Head(notifs))
       THEN /\ store' = Cache_deleteEventsAtPath(store, Head(notifs).old)
            /\ last' = Op("deleteEventsAtPath", "rename",
                          IF idsAtPath(store, Head(notifs).old) = {} THEN NoId
                          ELSE CHOOSE i \in idsAtPath(store, Head(notifs).old) : TRUE,
                          "", <<>>)
       ELSE /\ store' = store
            /\ last' = Op("ignored", "rename", NoId, "", <<>>)
    /\ UNCHANGED <<files, populated, gcal, ical, upstream, editing, steps, lifecycle,
                   plugin>>

\* the "delete" handler of the vault
OnDelete ==
    /\ Cache_isReady(populated, populating)
    /\ notifs # <<>> /\ Head(notifs).kind = "delete"
    /\ notifs' = Tail(notifs)
    /\ IF IsTFile(Head(notifs))
       THEN /\ store' = Cache_deleteEventsAtPath(store, Head(notifs).path)
            /\ last' = Op("deleteEventsAtPath", "delete", NoId, "", <<>>)
       ELSE /\ store' = store
            /\ last' = Op("ignored", "delete", NoId, "", <<>>)
    /\ UNCHANGED <<files, populated, gcal, ical, upstream, editing, steps, lifecycle,
                   plugin>>

External(W, what) ==
    /\ files' = W.files
    /\ notifs' = W.notifs
    /\ last' = Op("external", what, NoId, "", <<>>)
    /\ UNCHANGED <<store, populated, gcal, ical, upstream, editing, lifecycle, plugin>>

\* the user changes the vault outside the plugin
ExternalCreate ==
    /\ Begin
    /\ \E p \in FilePaths \ DOMAIN files, c \in Contents :
          External(Vault_create(World, p, c), "create")

ExternalEdit ==
    /\ Begin
    /\ \E p \in DOMAIN files, c \in Contents :
          c # files[p] /\ External(Vault_rewrite(World, p, c), "edit")

ExternalRename ==
    /\ Begin
    /\ \E p \in DOMAIN files, q \in FilePaths \ DOMAIN files :
          External(Vault_rename(World, p, q), "rename")

ExternalDelete ==
    /\ Begin
    /\ \E p \in DOMAIN files : External(Vault_delete(World, p), "delete")

Next ==
    \/ Populate
    \/ AddEvent
    \/ UpdateEventWithId
    \/ MoveEventToCalendar
    \/ DeleteEvent
    \/ OnChanged
    \/ OnRename
    \/ OnDelete
    \/ ExternalCreate
    \/ ExternalEdit
    \/ ExternalRename
    \/ ExternalDelete

Spec == Init /\ [][Next]_vars

-----------------------------------------------------------------------------
(* Properties of the store, of the local backends and of the file watchers *)

FileBasedIds == {i \in DOMAIN store : IsFileBased(store[i].cal) /\ store[i].loc # NoLoc}

\* C1: no two records owned by a file-based backend have the same location,
\* and the Store rejects an add or a location update that would give a second
\* id a location that is already owned.
C1_NoDuplicateLocation ==
    /\ \A i, j \in FileBasedIds : i # j => store[i].loc # store[j].loc
    /\ \A j \in FileBasedIds :
          /\ \A i \in DOMAIN store \ {j}, c \in LocalCals :
                LET u == Store_updateLocation(store, i, c, store[j].loc)
                IN  ~u.ok /\ u.store = store
          /\ \A e \in UserEvents, c \in LocalCals :
                LET a == Store_add(store, c, e, store[j].loc)
                IN  a.id # j => ~a.ok /\ a.store = store

\* C1 witness: updateEventWithId retitled an event onto the file name of
\* another event and the location callback was rejected.
C1_Witness ==
    /\ last.op = "updateEventWithId"
    /\ last.res = "duplicate location"
    /\ Cardinality(FileBasedIds) = 2

UserOps == {"addEvent", "updateEventWithId", "moveEventToCalendar", "deleteEvent", "submit"}

\* C2 (as stated): once the rename handler has removed the record of a renamed
\* file and fileUpdated has run for the new path, the Store holds a record
\* with the same id as before, located at the new path.
C2_IdStableAcrossRename ==
    [][(/\ last.op = "deleteEventsAtPath"
        /\ last.res = "rename"
        /\ last.id # NoId
        /\ last'.op = "fileUpdated")
       => /\ last.id \in DOMAIN store'
          /\ store'[last.id].loc.path = Head(notifs).path]_vars

\* C3 (as stated): when updateEventWithId on a local event has finished, by
\* success or by a throw, the location the Store holds for the id is the path
\* at which the file of the event is.
C3_LocationNeverStale ==
    [][(/\ last'.op = "updateEventWithId"
        /\ last'.id \in DOMAIN store'
        /\ store[last'.id].loc.path \in DOMAIN files)
       => IF store[last'.id].loc.path \in DOMAIN files'
          THEN store'[last'.id].loc.path = store[last'.id].loc.path
          ELSE store'[last'.id].loc.path \in DOMAIN files' \ DOMAIN files]_vars

IsBackendWrite(t) ==
    t \in {"vault.create", "vault.rename", "vault.rewrite", "vault.delete",
           "remote.create", "remote.update", "remote.delete"}

IsStoreMutation(t) ==
    t \in {"store.add", "store.delete", "store.updateLocation", "store.updateEvent"}

C6_MoveKeepsId ==
    [][/\ (last'.op = "moveEventToCalendar" /\ last'.res = "ok")
          => /\ last'.id \in DOMAIN store
             /\ store[last'.id].cal \in LocalCals /\ last'.cal \in LocalCals
             /\ store' = [store EXCEPT
                   ![last'.id].cal = last'.cal,
                   ![last'.id].loc = [path |-> <<last'.cal, "/",
                                                FileName(store[last'.id].loc.path)>>,
                                      line |-> 0]]
             /\ store'[last'.id].loc.path \in DOMAIN files'
       /\ (last.op = "moveEventToCalendar" /\ last.res = "ok"
           /\ last'.op = "deleteEventsAtPath")
          => store' = store]_vars

\* C6 witness: an event moved from calendar A into the folder of calendar B
\* while another event stays in A.
C6_Witness ==
    /\ last.op = "moveEventToCalendar"
    /\ last.res = "ok"
    /\ last.cal = "B"
    /\ last.id \in DOMAIN store
    /\ store[last.id].loc.path[1] = "B"
    /\ \E j \in DOMAIN store : store[j].cal = "A"

\* C7: a move into a backend that is not a full-note calendar is rejected
\* before any file I/O and before the location callback: files, notifications
\* and Store are unchanged; and FullNoteCalendar.move rejects in the same way
\* the same move requested from a location with a line number.
C7_IncompatibleMoveRejected ==
    [][last'.op = "moveEventToCalendar"
       => /\ CalType[last'.cal] # "local"
             => /\ last'.res # "ok"
                /\ last'.trace = <<>>
                /\ store' = store /\ files' = files /\ notifs' = notifs
          /\ \A io \in IOOutcomes :
                LET r == move(World, store, [store[last'.id].loc EXCEPT !.line = 1],
                              last'.cal, [id |-> last'.id, cal |-> last'.cal], io)
                IN  /\ r.res = "Note calendar cannot handle inline events."
                    /\ r.trace = <<>>
                    /\ r.store = store /\ r.files = files /\ r.notifs = notifs]_vars

\* C7 witness: a move of a full-note event into the daily-note calendar was
\* refused by FullNoteCalendar.move.
C7_Witness ==
    /\ last.op = "moveEventToCalendar"
    /\ last.cal = "D"
    /\ last.res = "Event cannot be moved to a note calendar."
    /\ last.id \in DOMAIN store
    /\ store[last.id].loc.path \in DOMAIN files

-----------------------------------------------------------------------------
(* Remote backends and the edit modal *)

MaxRequests == 2

\* the remote events another client can create: a changed title, a cancelled
\* event, an event without summary, an event without start
GUniverse ==
    {GoogleEvent("g1", "S", "d1", "confirmed"), GoogleEvent("g1", "T", "d1", "confirmed"),
     GoogleEvent("g2", "S", "d1", "confirmed"), GoogleEvent("g2", "S", "d1", "cancelled"),
     GoogleEvent("g3", "", "d1", "confirmed"), GoogleEvent("g3", "S", "", "confirmed")}

IUniverse == {[title |-> "S", date |-> "d1", id |-> "i1"]}

UniverseOf(c) == IF c = "G" THEN GUniverse ELSE IUniverse

\* the servers at load: three Google events, one ICS event
InitialUpstream ==
    [c \in RemoteCals |->
        IF c = "G" THEN {GoogleEvent("g1", "S", "d1", "confirmed"),
                         GoogleEvent("g2", "S", "d1", "confirmed"),
                         GoogleEvent("g3", "", "d1", "confirmed")}
        ELSE IUniverse]

\* a vault that holds no note: every event comes from a remote calendar
RemoteInitialVault == <<>>

InitRemote ==
    /\ files = RemoteInitialVault
    /\ notifs = <<>>
    /\ store = <<>>
    /\ populated = FALSE
    /\ gcal = <<>>
    /\ ical = {}
    /\ upstream = InitialUpstream
    /\ editing = NoEdit
    /\ steps = 0
    /\ last = Op("init", "ok", NoId, "", <<>>)
    /\ sources = DefaultSources
    /\ calendars = Cache_reset(DefaultSources, TRUE)
    /\ generation = 0
    /\ populating = FALSE
    /\ pending = {}
    /\ script = <<>>
    /\ NoCreateModal
    /\ NoCleanup
    /\ NoColours
    /\ NoAuth

\* another client adds, removes or changes one event on a remote server
UpstreamChange ==
    /\ Begin
    /\ \E c \in RemoteCals : \E e \in UniverseOf(c) :
          \/ /\ e \in upstream[c]
             /\ upstream' = [upstream EXCEPT ![c] = @ \ {e}]
          \/ /\ e \notin upstream[c]
             /\ upstream' = [upstream EXCEPT ![c] = {x \in @ : x.id # e.id} \cup {e}]
    /\ last' = Op("upstream", "ok", NoId, "", <<>>)
    /\ UNCHANGED <<files, notifs, store, populated, gcal, ical, editing, lifecycle,
                   plugin>>

\* revalidateRemoteCalendars, for the Google backend
RevalidateGoogle ==
    /\ populated
    /\ \E failAt \in -1..MaxRequests :
          \E r \in {revalidate(gcal, ListInOrder(GOrder, upstream["G"]), failAt)} :
          \E st2 \in {IF r.ok
                      THEN Cache_applyRevalidation(store, "G",
                                                   Range(GoogleGetEvents(r.events)))
                      ELSE store} :
              /\ gcal' = r.events
              /\ store' = st2
              /\ last' = Op("revalidate", IF r.ok THEN "ok" ELSE "failed", NoId, "G",
                            RevalidationTrace(r.requests, store, st2, "G"))
    /\ UNCHANGED <<files, notifs, populated, ical, upstream, editing, steps, lifecycle,
                   plugin>>

\* revalidateRemoteCalendars, for the read-only ICS backend
RevalidateICS ==
    /\ populated
    /\ \E ok \in BOOLEAN :
          \E st2 \in {IF ok
                      THEN Cache_applyRevalidation(store, "I",
                              {[event |-> e, loc |-> NoLoc] : e \in upstream["I"]})
                      ELSE store} :
              /\ ical' = IF ok THEN upstream["I"] ELSE ical
              /\ store' = st2
              /\ last' = Op("revalidate", IF ok THEN "ok" ELSE "failed", NoId, "I",
                            RevalidationTrace(1, store, st2, "I"))
    /\ UNCHANGED <<files, notifs, populated, gcal, upstream, editing, steps, lifecycle,
                   plugin>>

UsedGoogleIds ==
    {g.id : g \in upstream["G"]} \cup {g.id : g \in Range(gcal)}
        \cup {store[i].event.id : i \in DOMAIN store}

AddEventGoogle ==
    /\ Begin
    /\ \E event \in UserEvents, newId \in GIds \ UsedGoogleIds, apiOk \in BOOLEAN :
          Commit(WithWorld(Cache_addEventGoogle(upstream["G"], store, "G", event,
                                                newId, apiOk), World),
                 "addEvent", NoId, "G")
    /\ UNCHANGED <<populated, gcal, ical, editing, lifecycle, plugin>>

\* launchEditModal
OpenEditModal ==
    /\ populated
    /\ editing = NoEdit
    /\ \E id \in DOMAIN store :
          /\ store[id].cal \in ModalCalendars
          /\ editing' = [id |-> id, cal |-> store[id].cal]
          /\ last' = Op("launchEditModal", "ok", id, store[id].cal, <<>>)
    /\ UNCHANGED <<files, notifs, store, populated, gcal, ical, upstream, steps, lifecycle,
                   plugin>>

\* the submit callback of the edit modal: move when another calendar is
\* selected, then update; an error raises one Notice
Cache_submitEdit(W, up, st, edit, data, cal, io) ==
    LET mv == IF cal # edit.cal
              THEN Cache_moveEventToCalendar(W, up, st, edit.id, cal, io)
              ELSE Rejected("ok", W, up, st)
    IN  IF mv.res # "ok" THEN mv
        ELSE LET u == Cache_updateEventWithId([files |-> mv.files, notifs |-> mv.notifs],
                                              mv.up, mv.store, edit.id, data, io)
             IN  [u EXCEPT !.trace = mv.trace \o u.trace]

SubmitEdit ==
    /\ Begin
    /\ editing # NoEdit
    /\ \E data \in UserEvents, cal \in ModalCalendars,
          io \in {"ok", "renameFails", "rewriteFails"} :
          \E r \in {Cache_submitEdit(World, upstream["G"], store, editing, data, cal, io)} :
             /\ files' = r.files
             /\ notifs' = r.notifs
             /\ store' = r.store
             /\ upstream' = [upstream EXCEPT !["G"] = r.up]
             /\ last' = [Op("submit", r.res, editing.id, cal, r.trace)
                            EXCEPT !.notice = NoticeFor(r.res)]
    /\ UNCHANGED <<populated, gcal, ical, editing, lifecycle, plugin>>

CloseModal ==
    /\ editing # NoEdit
    /\ editing' = NoEdit
    /\ last' = Op("closeModal", "ok", NoId, "", <<>>)
    /\ UNCHANGED <<files, notifs, store, populated, gcal, ical, upstream, steps, lifecycle,
                   plugin>>

NextRemote ==
    \/ Populate
    \/ UpstreamChange
    \/ RevalidateGoogle
    \/ RevalidateICS
    \/ AddEventGoogle
    \/ DeleteEvent
    \/ OpenEditModal
    \/ SubmitEdit
    \/ CloseModal

SpecRemote == InitRemote /\ [][NextRemote]_vars

-----------------------------------------------------------------------------
(* Properties of revalidation and of the edit modal *)

\* C5: when the record of the event being edited is gone, the update the
\* modal submits for its id fails with the not-present error, shown as the
\* stale notice, without any backend write and with the Store unchanged.
C5_StaleUpdateRejected ==
    [][(/\ last'.op = "submit" /\ last'.cal = editing.cal
        /\ editing.id \notin DOMAIN store)
       => /\ last'.res = "not present in event store"
          /\ last'.notice = "stale"
          /\ last'.trace = <<>>
          /\ store' = store
          /\ files' = files /\ notifs' = notifs /\ upstream' = upstream]_vars

\* C5 witness: a Google event left the snapshot and the Store by a
\* revalidation while its modal was open, the modal was submitted, and the
\* Store still holds other records.
C5_Witness ==
    /\ last.op = "submit"
    /\ last.notice = "stale"
    /\ editing.cal = "G"
    /\ editing.id \notin DOMAIN store
    /\ \A g \in Range(gcal) : g.id # editing.id.nid
    /\ store # <<>>

\* the events a remote server offers: not cancelled, with a start
Offered(c) ==
    IF c = "G"
    THEN {[title |-> IF g.summary = "" THEN "(No title)" ELSE g.summary,
           date |-> g.start, id |-> g.id] :
             g \in {x \in upstream["G"] : x.status # "cancelled" /\ x.start # ""}}
    ELSE upstream[c]

\* C8: after a successful revalidation the records of the backend are exactly
\* the events now offered upstream; a record whose backend-native id is still
\* offered keeps its id, the other records of the backend are deleted, and the
\* records of the other backends are untouched.
C8_RevalidationMatchesSnapshot ==
    [][(last'.op = "revalidate" /\ last'.res = "ok")
       => LET c == last'.cal
              old == eventsByBackend(store, c)
              new == eventsByBackend(store', c)
          IN  /\ {store'[i].event : i \in new} = Offered(c)
              /\ Cardinality(new) = Cardinality(Offered(c))
              /\ \A i \in old : i \in new <=> \E e \in Offered(c) : e.id = store[i].event.id
              /\ \A i \in old \cap new : store'[i].event.id = store[i].event.id
              /\ \A i \in DOMAIN store \ old : i \in DOMAIN store' /\ store'[i] = store[i]
              /\ DOMAIN store' \ new = DOMAIN store \ old]_vars

\* C8 witness: three Google records, then one event removed upstream: the
\* revalidation deleted exactly one record and retained two.
C8_Witness ==
    /\ last.op = "revalidate"
    /\ last.res = "ok"
    /\ last.cal = "G"
    /\ SelectSeq(last.trace, IsStoreMutation) = <<"store.delete">>
    /\ Cardinality(eventsByBackend(store, "G")) = 2

\* C9: a successful revalidation that directly follows a successful
\* revalidation of the same backend changes neither the Store nor the
\* snapshot of the backend.
C9_RevalidationIdempotent ==
    [][(/\ last.op = "revalidate" /\ last.res = "ok"
        /\ last'.op = "revalidate" /\ last'.res = "ok"
        /\ last'.cal = last.cal)
       => store' = store /\ gcal' = gcal /\ ical' = ical]_vars

\* C9 witness: before any user operation, a revalidation of the Google
\* calendar found its three records and nothing to change.
C9_Witness ==
    /\ last.op = "revalidate"
    /\ last.res = "ok"
    /\ last.cal = "G"
    /\ steps = 0
    /\ SelectSeq(last.trace, IsStoreMutation) = <<>>
    /\ Cardinality(eventsByBackend(store, "G")) = 3

\* C10: a failed revalidation (no token, or a failed request on any page)
\* leaves the snapshot of the backend and the whole Store unchanged, and
\* leaves the snapshot of the other backend unchanged.
C10_FailedRevalidationKeepsState ==
    [][(last'.op = "revalidate" /\ last'.res = "failed")
       => store' = store /\ gcal' = gcal /\ ical' = ical]_vars

\* C10 witness: the request for the second page failed while the Google
\* calendar held a snapshot that differs from the events upstream.
C10_Witness ==
    /\ last.op = "revalidate"
    /\ last.res = "failed"
    /\ last.cal = "G"
    /\ last.trace = <<"remote.list", "remote.list">>
    /\ gcal # <<>>
    /\ Range(gcal) # upstream["G"]
    /\ eventsByBackend(store, "I") # {}

-----------------------------------------------------------------------------
(* Cache lifecycle: reset, populate, resync and the calls in flight *)

\* the sources of the settings at load: a local source whose directory is
\* gone, an ICS source whose url is not a URL, a local folder, a test
\* source, a daily-note and a Google calendar
FullSources ==
    <<CalendarInfo("local", "M", TRUE), CalendarInfo("ical", "X", FALSE),
      CalendarInfo("local", "A", TRUE), CalendarInfo("FOR_TEST_ONLY", "T", TRUE),
      CalendarInfo("dailynote", "D", TRUE), CalendarInfo("gcal", "G", TRUE)>>

\* the sources after the user removed all but the local folder
ReducedSources == <<CalendarInfo("local", "A", TRUE)>>

SourceLists == {FullSources, ReducedSources}

\* a cache that takes every backend for a remote one
IsRemote_all(c) == TRUE

IsRemote(c) == CalType[c] \in {"gcal", "ical", "caldav"}

\* the event of the daily note: one inline event under the heading
DailyNoteEvents ==
    {[event |-> [title |-> "T", date |-> "d1", id |-> ""],
      loc |-> [path |-> <<"daily", "/", "d1.md">>, line |-> 1]]}

\* getEvents() of the adapter of calendar c
Backend_getEvents(F, g, i, c) ==
    IF CalType[c] = "local" THEN getEvents(F, c)
    ELSE IF CalType[c] = "dailynote" THEN [ok |-> TRUE, events |-> DailyNoteEvents]
    ELSE IF CalType[c] = "gcal"
    THEN [ok |-> TRUE, events |-> Range(GoogleGetEvents(g))]
    ELSE [ok |-> TRUE, events |-> {[event |-> e, loc |-> NoLoc] : e \in i}]

\* populate(), for one backend: its events are inserted; a backend whose
\* getEvents() throws is logged and left without records
Cache_populateBackend(F, g, i, st, c) ==
    LET r == Backend_getEvents(F, g, i, c)
    IN  IF r.ok THEN AddAll(st, c, r.events) ELSE st

\* a populate() that gives up at the first backend that throws
Cache_populateRest_aborting(todo, ok) == IF ok THEN Tail(todo) ELSE <<>>

\* the backends populate() goes on with after the first of todo was asked
Cache_populateRest(todo, ok) == Tail(todo)

\* a call in flight: a populate() with the backends it has still to ask, or
\* the revalidate() of one backend with the answer of the server
PopulateCall(gen, at, todo) ==
    [kind |-> "populate", cal |-> "", gen |-> gen, at |-> at, pageToken |-> 0,
     allEvents |-> <<>>, todo |-> todo]

\* a revalidate() in flight holds its local variables: the token of the page
\* it has asked for and the events of the pages it has got
RevalidateCall(cal, gen, at, pageToken, allEvents) ==
    [kind |-> "revalidate", cal |-> cal, gen |-> gen, at |-> at, pageToken |-> pageToken,
     allEvents |-> allEvents, todo |-> <<>>]

\* one turn of the do-while of revalidate: the request of the page after
\* pageToken is answered from the list the server holds at that moment
FetchPage(items, pageToken, allEvents) ==
    LET first == pageToken * PageSize + 1
        lastIdx == IF (pageToken + 1) * PageSize < Len(items)
                   THEN (pageToken + 1) * PageSize ELSE Len(items)
        page == SubSeq(items, first, lastIdx)
    IN  [allEvents |-> allEvents \o SelectSeq(page, NotCancelled),
         nextPageToken |-> IF lastIdx < Len(items) THEN pageToken + 1 ELSE 0]

\* an adapter that appends what it fetched to the events it holds
GoogleCalendar_events_pushes(events, allEvents) == events \o allEvents

\* this.events = allEvents, when the last page has been fetched
GoogleCalendar_events(events, allEvents) == allEvents

\* a cache that applies whatever arrives
IsStaleCall_never(call, gen) == FALSE

\* a result is stale when the cache was reset after the call was made
IsStaleCall(call, gen) == call.gen # gen

\* the calls resync() dispatches: revalidate() on every remote backend
Cache_resync(cals, gen, at) ==
    {RevalidateCall(c, gen, at, 0, <<>>) : c \in {x \in Range(cals) : IsRemote(x)}}

\* the vault at load: one note in the folder of calendar A, an event
LifecycleInitialVault ==
    <<"A", "/", "d1 S.md">> :> [ok |-> TRUE, title |-> "S", date |-> "d1"]

\* the state after onload: the cache reset with the sources of the settings,
\* the file watchers registered, nothing populated
InitLifecycle ==
    /\ files = LifecycleInitialVault
    /\ notifs = <<>>
    /\ store = <<>>
    /\ populated = FALSE
    /\ gcal = <<>>
    /\ ical = {}
    /\ upstream = InitialUpstream
    /\ editing = NoEdit
    /\ steps = 0
    /\ last = Op("reset", "ok", NoId, "", <<>>)
    /\ sources = FullSources
    /\ calendars = Cache_reset(FullSources, TRUE)
    /\ generation = 0
    /\ populating = FALSE
    /\ pending = {}
    /\ script = <<>>
    /\ NoCreateModal
    /\ NoCleanup
    /\ NoColours
    /\ NoAuth

\* the steps of the commands: saveSettings, the submit of the calendar
\* settings (saveSettings, then reset, populate and resync once more), the
\* "Reset Event Cache" and the "Revalidate remote calendars" commands
Commands == {"saveSettings", "submit", "reset", "revalidate"}

ScriptOf(cmd) ==
    IF cmd = "saveSettings" THEN <<"reset", "populate", "resync">>
    ELSE IF cmd = "submit"
    THEN <<"reset", "populate", "resync", "reset", "populate", "resync">>
    ELSE IF cmd = "reset" THEN <<"reset">>
    ELSE <<"resync">>

\* the host runs a callback only while no synchronous code is running: a
\* command runs from one await to the next without interruption
Interleaved == IF script = <<>> THEN TRUE ELSE Head(script) = "await"

StartCommand ==
    /\ script = <<>>
    /\ steps < MaxOps
    /\ steps' = steps + 1
    /\ \E cmd \in Commands :
          \E src \in (IF cmd = "submit" THEN SourceLists ELSE {sources}) :
             /\ sources' = src
             /\ script' = ScriptOf(cmd)
             /\ last' = Op(cmd, "started", NoId, "", <<>>)
    /\ UNCHANGED <<files, notifs, store, populated, gcal, ical, upstream, editing,
                   calendars, generation, populating, pending, plugin>>

\* a reset that keeps the records of the Store
Store_clear_keeps(st) == st

\* reset empties the Store
Store_clear(st) == <<>>

\* cache.reset(settings.calendarSources); initGoogleAuth has run before
RunReset ==
    /\ script # <<>> /\ Head(script) = "reset"
    /\ script' = Tail(script)
    /\ calendars' = Cache_reset(sources, TRUE)
    /\ generation' = generation + 1
    /\ store' = Store_clear(store)
    /\ populated' = FALSE
    /\ populating' = FALSE
    /\ gcal' = <<>>
    /\ ical' = {}
    /\ last' = Op("reset", "ok", NoId, "", <<>>)
    /\ UNCHANGED <<files, notifs, upstream, editing, steps, sources, pending, plugin>>

\* await cache.populate(): the command continues when populate has finished
RunPopulate ==
    /\ script # <<>> /\ Head(script) = "populate"
    /\ script' = <<"await">> \o Tail(script)
    /\ populating' = TRUE
    /\ pending' = pending \cup {PopulateCall(generation, steps, calendars)}
    /\ last' = Op("populate", "started", NoId, "", <<>>)
    /\ UNCHANGED <<files, notifs, store, populated, gcal, ical, upstream, editing,
                   steps, sources, calendars, generation, plugin>>

\* a calendar view opens on the unpopulated cache and populates it
OpenView ==
    /\ script = <<>>
    /\ ~populated /\ ~populating
    /\ populating' = TRUE
    /\ pending' = pending \cup {PopulateCall(generation, steps, calendars)}
    /\ last' = Op("populate", "started", NoId, "", <<>>)
    /\ UNCHANGED <<files, notifs, store, populated, gcal, ical, upstream, editing,
                   steps, sources, calendars, generation, script, plugin>>

\* getEvents() of the next backend resolves: populate inserts its events and
\* goes on to the next backend, or has finished
PopulateBackend ==
    /\ Interleaved
    /\ \E call \in pending :
          /\ call.kind = "populate"
          /\ ~IsStaleCall(call, generation)
          /\ store' = Cache_populateBackend(files, gcal, ical, store, Head(call.todo))
          /\ \E rest \in {Cache_populateRest(call.todo,
                               Backend_getEvents(files, gcal, ical, Head(call.todo)).ok)} :
                /\ IF rest = <<>>
                   THEN /\ pending' = pending \ {call}
                        /\ populating' = FALSE
                        /\ populated' = TRUE
                        /\ script' = IF script = <<>> THEN <<>> ELSE Tail(script)
                   ELSE /\ pending' = (pending \ {call}) \cup {[call EXCEPT !.todo = rest]}
                        /\ UNCHANGED <<populating, populated, script>>
                /\ last' = Op("populate", IF rest = <<>> THEN "ok" ELSE "started",
                              NoId, Head(call.todo), <<>>)
    /\ UNCHANGED <<files, notifs, gcal, ical, upstream, editing, steps, sources,
                   calendars, generation, plugin>>

\* getEvents() resolves for a populate() that began before the latest reset:
\* its adapters are no longer registered and nothing is inserted
PopulateStale ==
    /\ Interleaved
    /\ \E call \in pending :
          /\ call.kind = "populate"
          /\ IsStaleCall(call, generation)
          /\ pending' = pending \ {call}
          /\ last' = Op("populate", "stale", NoId, Head(call.todo), <<>>)
    /\ UNCHANGED <<files, notifs, store, populated, gcal, ical, upstream, editing,
                   steps, sources, calendars, generation, populating, script, plugin>>

\* the operations of the cache that are refused while it is not populated
GuardedOps ==
    {"fileUpdated", "deleteEventsAtPath", "addEvent", "updateEventWithId",
     "moveEventToCalendar", "deleteEvent"}

NotReady(isPopulating) ==
    IF isPopulating THEN "cache is populating" ELSE "cache is not populated"

\* cache.resync() / revalidateRemoteCalendars(true): revalidate() is called on
\* the remote backends; a cache that is not populated refuses
RunResync ==
    /\ script # <<>> /\ Head(script) = "resync"
    /\ script' = Tail(script)
    /\ IF Cache_isReady(populated, populating)
       THEN /\ pending' = pending \cup Cache_resync(calendars, generation, steps)
            /\ last' = Op("resync", "ok", NoId, "", <<>>)
       ELSE /\ pending' = pending
            /\ last' = Op("resync", NotReady(populating), NoId, "", <<>>)
    /\ UNCHANGED <<files, notifs, store, populated, gcal, ical, upstream, editing,
                   steps, sources, calendars, generation, populating, plugin>>

\* the answer to a request of revalidate() of the Google backend arrives:
\* the request failed and revalidate throws, or there is a next page to ask
\* for, or the page was the last: the adapter takes the fetched events and
\* the cache sets the records of the backend to them
GoogleArrives ==
    /\ Interleaved
    /\ \E call \in pending :
          /\ call.kind = "revalidate" /\ CalType[call.cal] = "gcal"
          /\ ~IsStaleCall(call, generation)
          /\ \E answer \in {"ok", "error"} :
             \E f \in {FetchPage(ListInOrder(GOrder, upstream[call.cal]),
                                 call.pageToken, call.allEvents)} :
                IF answer = "error"
                THEN /\ pending' = pending \ {call}
                     /\ UNCHANGED <<gcal, store>>
                     /\ last' = Op("revalidate", "failed", NoId, call.cal,
                                   RevalidationTrace(call.pageToken + 1, store, store,
                                                     call.cal))
                ELSE IF f.nextPageToken # 0
                THEN /\ pending' = (pending \ {call})
                                      \cup {RevalidateCall(call.cal, call.gen, call.at,
                                                           f.nextPageToken, f.allEvents)}
                     /\ UNCHANGED <<gcal, store>>
                     /\ last' = Op("revalidate", "page", NoId, call.cal, <<>>)
                ELSE \E events \in {GoogleCalendar_events(gcal, f.allEvents)} :
                     \E st2 \in {Cache_applyRevalidation(store, call.cal,
                                                         Range(GoogleGetEvents(events)))} :
                        /\ pending' = pending \ {call}
                        /\ gcal' = events
                        /\ store' = st2
                        /\ last' = Op("revalidate", "ok", NoId, call.cal,
                                      RevalidationTrace(call.pageToken + 1, store, st2,
                                                        call.cal))
    /\ UNCHANGED <<files, notifs, populated, ical, upstream, editing, steps, sources,
                   calendars, generation, populating, script, plugin>>

\* the answer to a revalidate() that was called before the latest reset
\* arrives: its adapter is no longer registered and the result is dropped
StaleArrives ==
    /\ Interleaved
    /\ \E call \in pending :
          /\ call.kind = "revalidate"
          /\ IsStaleCall(call, generation)
          /\ pending' = pending \ {call}
          /\ last' = Op("revalidate", "stale", NoId, call.cal, <<>>)
    /\ UNCHANGED <<files, notifs, store, populated, gcal, ical, upstream, editing,
                   steps, sources, calendars, generation, populating, script, plugin>>

\* the file watchers, on a populated cache
WatchChanged == Interleaved /\ OnChanged

WatchRename == Interleaved /\ OnRename

WatchDelete == Interleaved /\ OnDelete

\* a file watcher fires while the cache is not populated: the call fails fast
WatchNotReady ==
    /\ Interleaved
    /\ ~Cache_isReady(populated, populating)
    /\ notifs # <<>>
    /\ notifs' = Tail(notifs)
    /\ last' = IF Head(notifs).kind # "changed" /\ ~IsTFile(Head(notifs))
               THEN Op("ignored", Head(notifs).kind, NoId, "", <<>>)
               ELSE Op(IF Head(notifs).kind = "changed" THEN "fileUpdated"
                       ELSE "deleteEventsAtPath",
                       NotReady(populating), NoId, "", <<>>)
    /\ UNCHANGED <<files, store, populated, gcal, ical, upstream, editing, steps, lifecycle,
                   plugin>>

\* the user asks for an operation on an event while the cache is populating
InvokeWhilePopulating ==
    /\ Interleaved
    /\ populating /\ ~Cache_isReady(populated, populating)
    /\ steps < MaxOps
    /\ steps' = steps + 1
    /\ \E op \in GuardedOps \ {"fileUpdated", "deleteEventsAtPath"} :
          last' = Op(op, NotReady(populating), NoId, "", <<>>)
    /\ UNCHANGED <<files, notifs, store, populated, gcal, ical, upstream, editing,
                   lifecycle, plugin>>

\* the user edits, renames or deletes a note outside the plugin
VaultFileChange ==
    /\ Interleaved
    /\ steps < MaxOps
    /\ steps' = steps + 1
    /\ \/ \E p \in DOMAIN files,
             c \in {InvalidContent} \cup {newFrontmatter(e) : e \in UserEvents} :
             c # files[p] /\ External(Vault_rewrite(World, p, c), "edit")
       \/ \E p \in DOMAIN files, q \in {<<"A", "/", "d1 T.md">>} \ DOMAIN files :
             External(Vault_rename(World, p, q), "rename")
       \/ \E p \in DOMAIN files : External(Vault_delete(World, p), "delete")

\* the user renames or deletes an empty folder
VaultFolderChange ==
    /\ Interleaved
    /\ steps < MaxOps
    /\ steps' = steps + 1
    /\ \E n \in {FolderRenamed(<<"E2">>, <<"E">>), FolderDeleted(<<"E">>)} :
          External([files |-> files, notifs |-> Append(notifs, n)], "folder")

RemoteChange == Interleaved /\ UpstreamChange

NextLifecycle ==
    \/ StartCommand
    \/ RunReset
    \/ RunPopulate
    \/ OpenView
    \/ PopulateBackend
    \/ PopulateStale
    \/ RunResync
    \/ GoogleArrives
    \/ StaleArrives
    \/ WatchChanged
    \/ WatchRename
    \/ WatchDelete
    \/ WatchNotReady
    \/ InvokeWhilePopulating
    \/ VaultFileChange
    \/ VaultFolderChange
    \/ RemoteChange

SpecLifecycle == InitLifecycle /\ [][NextLifecycle]_vars

-----------------------------------------------------------------------------
(* Properties of the cache lifecycle *)

\* the record the Store holds for an event of a note or of the daily note
HasRecord(st, c, loc, title) ==
    \E i \in DOMAIN st :
        st[i].cal = c /\ st[i].loc = loc /\ st[i].event.title = title

\* C11: populate asks the backends one by one; the backend whose directory is
\* not a folder of the vault gets no record and populate goes on: every event
\* note of the folder of A and the event of the daily note are inserted, no
\* record is removed, and when populate has finished the cache is populated,
\* with the record of the daily note and no record of the failed backend.
C11_PopulateIndependent ==
    [][(last'.op = "populate" /\ last'.cal # "" /\ last'.res # "stale")
       => /\ last'.cal = "M" => store' = store /\ <<"gone">> \notin Folders
          /\ last'.cal = "A"
                => \A p \in DOMAIN files :
                      files[p].ok /\ Len(p) = 3 /\ p[1] = "A"
                         => HasRecord(store', "A", [path |-> p, line |-> 0], files[p].title)
          /\ last'.cal = "D"
                => HasRecord(store', "D", [path |-> <<"daily", "/", "d1.md">>, line |-> 1], "T")
          /\ \A i \in DOMAIN store : i \in DOMAIN store' /\ store'[i] = store[i]
          /\ last'.res = "ok"
                => /\ populated' /\ ~populating'
                   /\ eventsByBackend(store', "M") = {}
                   /\ "D" \in Range(calendars) => eventsByBackend(store', "D") # {}
          /\ last'.res # "ok" => populating' /\ \E call \in pending' : call.kind = "populate"
                                                  /\ call.gen = generation]_vars

\* C11 witness: populate has finished on the sources of which the first has
\* no folder: the note of A and the daily note have their records.
C11_Witness ==
    /\ last.op = "populate" /\ last.res = "ok"
    /\ populated
    /\ calendars[1] = "M"
    /\ eventsByBackend(store, "M") = {}
    /\ eventsByBackend(store, "A") # {}
    /\ eventsByBackend(store, "D") # {}

\* C12: the result of a populate or of a revalidation that was called before
\* the latest reset changes neither the Store nor the snapshots of the
\* backends when it arrives, and every record of the Store is owned by an
\* adapter that the latest reset created; this includes the results of the
\* first reset/populate/resync of the settings submit that arrive after the
\* second reset.
C12_StaleResultDropped ==
    [][/\ \A call \in pending :
             (call \notin pending' /\ call.gen # generation)
                => store' = store /\ gcal' = gcal /\ ical' = ical
                   /\ populated' = populated /\ populating' = populating
       /\ \A i \in DOMAIN store' : store'[i].cal \in Range(calendars')]_vars

\* C12 witness: the answer to a revalidation called before the latest reset
\* has arrived, after the second reset of a submit, while the server holds
\* events that the Store does not hold.
C12_Witness ==
    /\ last.op = "revalidate" /\ last.res = "stale"
    /\ generation = 2 /\ steps = 1
    /\ upstream["G"] # {}
    /\ eventsByBackend(store, "G") = {}
    /\ store # <<>>

\* C13: while populate is in progress, an operation of the cache other than
\* reset and populate fails with "cache is populating" and changes neither
\* the Store nor the calls in flight: the calls of the file watchers
\* (fileUpdated, deleteEventsAtPath), the operations on events and resync;
\* the only steps that change the Store are those of populate and reset.
C13_FailFastWhilePopulating ==
    [][populating
       => /\ (notifs # <<>> /\ notifs' = Tail(notifs))
                => /\ store' = store
                   /\ last'.op \in {"fileUpdated", "deleteEventsAtPath", "ignored"}
          /\ last'.op \in GuardedOps \cup {"resync"}
                => /\ last'.res = "cache is populating"
                   /\ store' = store /\ gcal' = gcal /\ ical' = ical
                   /\ pending' = pending
                   /\ populating'
          /\ store' # store => last'.op \in {"populate", "reset"}]_vars

\* C13 witness: a note changed while populate was in progress and had
\* inserted records already; the call of the watcher has failed.
C13_Witness ==
    /\ populating
    /\ last.op = "fileUpdated" /\ last.res = "cache is populating"
    /\ store # <<>>
    /\ \E call \in pending : call.kind = "populate" /\ call.gen = generation

\* C14: when the last page of a revalidation of the Google backend arrives
\* while other revalidations of the same adapter are in flight, the adapter
\* holds exactly the events this revalidation fetched, each upstream event
\* once; the records of the backend are exactly the events converted from
\* that list, one record for one upstream event; and the pages the other
\* revalidations have fetched are untouched, so that the Store ends as the
\* snapshot of the revalidation that finishes last.
C14_RevalidationsSerialized ==
    [][\A call \in pending :
          (/\ call.kind = "revalidate" /\ call.gen = generation
           /\ call \notin pending'
           /\ last'.op = "revalidate" /\ last'.res = "ok")
             => \E fetched \in {FetchPage(ListInOrder(GOrder, upstream[call.cal]),
                                          call.pageToken, call.allEvents).allEvents} :
                   /\ gcal' = fetched
                   /\ \A m, n \in DOMAIN gcal' : gcal'[m].id = gcal'[n].id => m = n
                   /\ {store'[i].event : i \in eventsByBackend(store', call.cal)}
                         = {r.event : r \in Range(GoogleGetEvents(fetched))}
                   /\ \A i, j \in eventsByBackend(store', call.cal) :
                         store'[i].event.id = store'[j].event.id => i = j
                   /\ pending' = pending \ {call}]_vars

\* C14 witness: the revalidation of the resync after saveSettings and the one
\* of the command overlap: one has been applied while the other, called on
\* the same adapter, has fetched its first page and waits for the next.
C14_Witness ==
    /\ last.op = "revalidate" /\ last.res = "ok" /\ last.cal = "G"
    /\ eventsByBackend(store, "G") # {}
    /\ \E other \in pending :
          /\ other.kind = "revalidate" /\ other.cal = "G"
          /\ other.gen = generation
          /\ other.pageToken > 0

\* C15: the rename handler, with the old path, and the delete handler, with
\* the path of the file, call deleteEventsAtPath when the notification is
\* about a file: every record located at that path leaves the Store and every
\* other record, located at another path or without a location, stays as it
\* was; a notification about a folder changes nothing.
C15_DeleteEventsAtPathFrame ==
    [][(/\ notifs # <<>> /\ notifs' = Tail(notifs)
        /\ Head(notifs).kind \in {"rename", "delete"}
        /\ Cache_isReady(populated, populating))
          => \E p \in {IF Head(notifs).kind = "rename" THEN Head(notifs).old
                        ELSE Head(notifs).path} :
                IF Head(notifs).file
                THEN /\ last'.op = "deleteEventsAtPath"
                     /\ DOMAIN store' = {i \in DOMAIN store : store[i].loc.path # p}
                     /\ \A i \in DOMAIN store' : store'[i] = store[i]
                ELSE /\ last'.op = "ignored"
                     /\ store' = store]_vars

\* C15 witness: the note of the local calendar was renamed and the record at
\* its old path has left the Store, which still holds the record of the daily note and the
\* records of the Google calendar, which have no location.
C15_Witness ==
    /\ last.op = "deleteEventsAtPath" /\ last.id # NoId
    /\ eventsByBackend(store, "A") = {}
    /\ eventsByBackend(store, "D") # {}
    /\ \E i \in eventsByBackend(store, "G") : store[i].loc = NoLoc

\* the events of the records of st located at path p, with their locations
RecordsAtPath(st, p) ==
    {[event |-> st[i].event, loc |-> st[i].loc] : i \in idsAtPath(st, p)}

\* C16: in every state, for every path p of a calendar folder,
\* deleteEventsAtPath(p) followed by fileUpdated of the file at p leaves at p
\* exactly what getEventsInFile yields for the file (nothing when the
\* frontmatter is no event, else one record for the whole file) and leaves
\* the records at the other paths as they were.
C16_ReconcileIdempotent ==
    \A p \in FilePaths :
       CalendarsOfPath(p) # {}
          => \E st2 \in {Cache_fileUpdated(files, Cache_deleteEventsAtPath(store, p), p)} :
                /\ RecordsAtPath(st2, p) = Range(getEventsInFile(files, p))
                /\ Cardinality(idsAtPath(st2, p)) = Len(getEventsInFile(files, p))
                /\ \A i \in DOMAIN store \cup DOMAIN st2 :
                      (i \in DOMAIN store /\ store[i].loc.path # p)
                      \/ (i \in DOMAIN st2 /\ st2[i].loc.path # p)
                         => i \in DOMAIN store /\ i \in DOMAIN st2 /\ st2[i] = store[i]

\* C17: a deleteEvent of a record of a full-note calendar succeeds exactly
\* when the file of its location exists and the vault deletes it: the file
\* and the record are gone when deleteEvent returns and the other records
\* are as they were; when the file is not found or the vault refuses,
\* deleteEvent fails and files and Store are unchanged, the record still
\* present; and the same call on a record whose location has a line number
\* fails in the backend and leaves the record in the Store.
C17_DeleteEventOutcome ==
    [][(last'.op = "deleteEvent" /\ last'.id \in DOMAIN store
        /\ CalType[store[last'.id].cal] = "local")
       => \E p \in {normalizeVaultPath(store[last'.id].loc.path)} :
             /\ p \notin DOMAIN files => last'.res = "File not found."
             /\ last'.res = "ok"
                   => /\ p \in DOMAIN files /\ p \notin DOMAIN files'
                      /\ last'.id \notin DOMAIN store'
                      /\ DOMAIN store' = DOMAIN store \ {last'.id}
                      /\ \A i \in DOMAIN store' : store'[i] = store[i]
             /\ last'.res # "ok"
                   => /\ last'.id \in DOMAIN store'
                      /\ store' = store /\ files' = files
             /\ \A io \in {"ok", "writeFails"} :
                   \E inl \in {[store EXCEPT ![last'.id].loc.line = 1]} :
                   \E r \in {Cache_deleteEvent(World, upstream["G"], inl, last'.id, io)} :
                      /\ r.res = "Note calendar cannot handle inline events."
                      /\ r.store = inl /\ r.files = files]_vars

\* C17 witness: deleteEvent was called for an event whose file is gone; the
\* backend threw "not found" and the record is still in the Store.
C17_Witness ==
    /\ last.op = "deleteEvent" /\ last.res = "File not found."
    /\ last.id \in DOMAIN store
    /\ store[last.id].loc.path \notin DOMAIN files

\* the ids a caller can hold: those of the Store and those of the events a
\* note of the vault could give
KnownIds ==
    DOMAIN store
    \cup {IdFor(e, [path |-> q, line |-> 0]) : e \in UserEvents, q \in FilePaths}

\* C18: in every state, Store.delete of an id the Store does not hold fails
\* with "not present in event store", a message of its own among the
\* failures of the Store, and returns the Store as it was; Store.delete of
\* an id it holds succeeds and removes that record alone: the other records,
\* the ids at every path and the ids of every backend lose that id and
\* nothing else.
C18_StoreDelete ==
    \A id \in KnownIds :
       \E r \in {Store_delete(store, id)} :
          IF id \notin DOMAIN store
          THEN /\ ~r.ok
               /\ r.err = "not present in event store"
               /\ r.err \notin {"", "id already in event store", "duplicate location"}
               /\ r.store = store
          ELSE /\ r.ok
               /\ DOMAIN r.store = DOMAIN store \ {id}
               /\ \A i \in DOMAIN r.store : r.store[i] = store[i]
               /\ \A q \in FilePaths \cup {NoPath} :
                     idsAtPath(r.store, q) = idsAtPath(store, q) \ {id}
               /\ \A c \in Cals : eventsByBackend(r.store, c) = eventsByBackend(store, c) \ {id}

\* C18 witness: the cache has deleted one record through the Store, which
\* holds other records, and the caller still holds the id that is gone.
C18_Witness ==
    /\ last.op = "deleteEvent" /\ last.res = "ok"
    /\ last.trace = <<"vault.delete", "store.delete">>
    /\ last.id \in KnownIds \ DOMAIN store
    /\ store # <<>>

\* the ids of the descriptors of src of one of the types, in their order
RECURSIVE IdsOfTypes(_, _)
IdsOfTypes(src, types) ==
    IF src = <<>> THEN <<>>
    ELSE (IF Head(src).valid /\ Head(src).type \in types THEN <<Head(src).id>> ELSE <<>>)
         \o IdsOfTypes(Tail(src), types)

\* C19: a reset empties the Store and the snapshots, leaves the cache
\* unpopulated and not populating, and registers one adapter for each
\* descriptor of the settings that is well-formed and of a supported type, in
\* the order of the descriptors: the ICS source with a malformed url and the
\* test source are skipped and the descriptors after them still get their
\* adapters; and the same reset without an auth service would skip the
\* Google sources as well and register the others.
C19_ResetSkipsUnsupported ==
    [][generation' # generation
       => /\ store' = <<>> /\ gcal' = <<>> /\ ical' = {}
          /\ ~populated' /\ ~populating'
          /\ last'.op = "reset" /\ last'.res = "ok"
          /\ calendars' = IdsOfTypes(sources, {"local", "dailynote", "ical", "caldav", "gcal"})
          /\ sources = FullSources => calendars' = <<"M", "A", "D", "G">>
          /\ Cache_reset(sources, FALSE)
                = IdsOfTypes(sources, {"local", "dailynote", "ical", "caldav"})
          /\ sources = FullSources => Cache_reset(sources, FALSE) = <<"M", "A", "D">>]_vars

\* C19 witness: a reset has run, while a revalidation of the populated cache
\* was in flight, for the sources of which two are skipped; the Store is
\* empty, the cache is unpopulated and the adapters are those of the four
\* other sources.
C19_Witness ==
    /\ last.op = "reset" /\ last.res = "ok"
    /\ generation > 0
    /\ sources = FullSources
    /\ calendars = <<"M", "A", "D", "G">>
    /\ store = <<>> /\ ~populated
    /\ \E call \in pending : call.kind = "revalidate"

\* C20: resync and the command "Revalidate remote calendars" call
\* revalidate() on every registered backend of type gcal, ical or caldav and
\* on no other, and the call leaves the Store as it is; when the answer of a
\* revalidation arrives, whether applied, failed or dropped, the records
\* owned by the local and the daily-note backends are the same before and
\* after, and so are the files of the vault.
C20_ResyncOnlyRemote ==
    [][/\ (script # <<>> /\ Head(script) = "resync" /\ script' = Tail(script))
          => /\ store' = store /\ gcal' = gcal /\ files' = files
             /\ \A call \in pending' \ pending :
                   /\ call.kind = "revalidate"
                   /\ call.cal \in Range(calendars)
                   /\ CalType[call.cal] \in {"gcal", "ical", "caldav"}
             /\ last'.res = "ok"
                   => \A c \in Range(calendars) :
                         CalType[c] \in {"gcal", "ical", "caldav"}
                            => \E call \in pending' : call.cal = c /\ call.gen = generation
                                                       /\ call.at = steps
             /\ last'.res # "ok" => pending' = pending
       /\ last'.op = "revalidate"
          => /\ files' = files
             /\ \A i \in DOMAIN store \cup DOMAIN store' :
                   (\/ (i \in DOMAIN store /\ CalType[store[i].cal] \in {"local", "dailynote"})
                    \/ (i \in DOMAIN store' /\ CalType[store'[i].cal] \in {"local", "dailynote"}))
                      => i \in DOMAIN store /\ i \in DOMAIN store' /\ store'[i] = store[i]]_vars

\* C20 witness: a resync has revalidated the Google calendar and its events
\* are in the Store, next to the records of the note and of the daily
\* note that populate had inserted.
C20_Witness ==
    /\ last.op = "revalidate" /\ last.res = "ok" /\ last.cal = "G"
    /\ Len(last.trace) > 1
    /\ eventsByBackend(store, "G") # {}
    /\ eventsByBackend(store, "A") # {}
    /\ eventsByBackend(store, "D") # {}
    /\ pending = {}

-----------------------------------------------------------------------------
(* The create modal: EditEvent in a ReactModal, its saves and its close *)

\* user steps in one session of the create modal
MaxModalOps == 3

\* the isCreate of EditEvent: launchCreateModal passes TRUE, launchEditModal
\* passes FALSE
isCreate == editing = NoEdit

\* performSave of a create modal goes on to submit only with a title, a
\* date and the latch not set; that of an edit modal always does
performSave(data, hasCreated) ==
    isCreate => (data.title # "" /\ data.date # "" /\ ~hasCreated)

\* a performSave that awaits submit, which awaits cache.addEvent; closes is
\* TRUE when a close() of the modal waits for it
Save(data, closes, n) == [data |-> data, closes |-> closes, n |-> n]

\* the data of the form as the latest render holds them
FormData == [title |-> fields.title, date |-> fields.date]

\* performSave called synchronously: when it goes on, submit calls
\* cache.addEvent before it yields
StartSave(data, hasCreated, closes, pendingSaves, calls) ==
    IF performSave(data, hasCreated)
    THEN [started |-> TRUE, calls |-> calls + 1,
          saves |-> pendingSaves \cup {Save(data, closes, calls + 1)}]
    ELSE [started |-> FALSE, calls |-> calls, saves |-> pendingSaves]

\* the calendar the create modal adds to
ModalCalendar == "A"

\* launchCreateModal on a populated cache and an empty vault: the form has
\* no title; the date is that of the day that was clicked, if any
InitModal ==
    /\ files = <<>>
    /\ notifs = <<>>
    /\ store = <<>>
    /\ populated = TRUE
    /\ gcal = <<>>
    /\ ical = {}
    /\ upstream = [c \in RemoteCals |-> {}]
    /\ editing = NoEdit
    /\ steps = 0
    /\ last = Op("launchCreateModal", "ok", NoId, ModalCalendar, <<>>)
    /\ sources = DefaultSources
    /\ calendars = Cache_reset(DefaultSources, TRUE)
    /\ generation = 0
    /\ populating = FALSE
    /\ pending = {}
    /\ script = <<>>
    /\ modalOpen = TRUE
    /\ fields \in [title : {""}, date : Dates \cup {""}]
    /\ hasCreatedRef = FALSE
    /\ saveTimeoutRef = NoTimer
    /\ saves = {}
    /\ addCalls = 0
    /\ notices = 0
    /\ hookRuns = 0
    /\ timers = {}
    /\ calendarIndex = ModalCalendar
    /\ beforeCloseRef = TRUE
    /\ NoCleanup
    /\ NoColours
    /\ NoAuth

\* what a step of the modal leaves alone
ModalFrame ==
    UNCHANGED <<populated, gcal, ical, upstream, editing, lifecycle, cleanup, colours, auth,
                editModal, authFlow>>

\* the user changes a field: the handler of the current render sets the
\* state and calls autoSave, whose timer will save the data of that render
EditField ==
    /\ modalOpen
    /\ steps < MaxModalOps
    /\ steps' = steps + 1
    /\ \E f \in [title : Titles \cup {""}, date : Dates \cup {""}] :
          /\ f # fields
          /\ f.title = fields.title \/ f.date = fields.date
          /\ fields' = f
    /\ saveTimeoutRef' = [title |-> fields.title, date |-> fields.date, armed |-> TRUE]
    /\ last' = Op("edit", "ok", NoId, ModalCalendar, <<>>)
    /\ UNCHANGED <<files, notifs, store, modalOpen, hasCreatedRef, saves, addCalls,
                   notices, hookRuns>>
    /\ ModalFrame

\* the debounce timer fires: performSave with the data the timer holds
TimerFires ==
    /\ modalOpen
    /\ saveTimeoutRef.armed
    /\ \E s \in {StartSave([title |-> saveTimeoutRef.title, date |-> saveTimeoutRef.date],
                            hasCreatedRef, FALSE, saves, addCalls)} :
          /\ saves' = s.saves
          /\ addCalls' = s.calls
          /\ last' = Op("timer", IF s.started THEN "submit" ELSE "skipped", NoId,
                        ModalCalendar, <<>>)
    /\ saveTimeoutRef' = NoTimer
    /\ UNCHANGED <<files, notifs, store, steps, modalOpen, fields, hasCreatedRef,
                   notices, hookRuns>>
    /\ ModalFrame

\* saveImmediately from a handler of the current render: the timer is
\* cleared and performSave is called
SaveImmediately(what) ==
    /\ modalOpen
    /\ steps < MaxModalOps
    /\ steps' = steps + 1
    /\ \E s \in {StartSave(FormData, hasCreatedRef, FALSE, saves, addCalls)} :
          /\ saves' = s.saves
          /\ addCalls' = s.calls
          /\ last' = Op(what, IF s.started THEN "submit" ELSE "skipped", NoId,
                        ModalCalendar, <<>>)
    /\ saveTimeoutRef' = NoTimer
    /\ UNCHANGED <<files, notifs, store, modalOpen, fields, hasCreatedRef, notices,
                   hookRuns>>
    /\ ModalFrame

\* the user picks a colour
PickColour == SaveImmediately("colour")

\* the user submits the form
FormSubmit == SaveImmediately("formSubmit")

\* a close() that does not look at the registered function
close_withoutHook(fn, runs) == [hookRuns |-> runs, ranHook |-> FALSE]

\* ReactModal.close(): the registered function is called, and the modal is
\* closed when its promise has settled; without one the modal is closed
close(fn, runs) ==
    IF fn THEN [hookRuns |-> runs + 1, ranHook |-> TRUE]
    ELSE [hookRuns |-> runs, ranHook |-> FALSE]

\* a forceClose that goes through close()
forceClose_throughClose(fn, runs) == close(fn, runs)

\* ReactModal.forceClose(): Modal.close() at once
forceClose(fn, runs) == [hookRuns |-> runs, ranHook |-> FALSE]

\* the modal is asked to close, by close() or by forceClose(): when the
\* registered function ran and its save awaits cache.addEvent, the modal
\* stays open until that has settled
Closing(c, op) ==
    /\ hookRuns' = c.hookRuns
    /\ \E s \in {IF c.ranHook
                  THEN StartSave(FormData, hasCreatedRef, TRUE, saves, addCalls)
                  ELSE [started |-> FALSE, calls |-> addCalls, saves |-> saves]} :
          /\ saves' = s.saves
          /\ addCalls' = s.calls
          /\ modalOpen' = s.started
          /\ last' = Op(op, IF s.started THEN "submit" ELSE "closed", NoId,
                        ModalCalendar, <<>>)

\* the user asks to close the modal: close()
CloseRequest ==
    /\ modalOpen
    /\ steps < MaxModalOps
    /\ steps' = steps + 1
    /\ Closing(close(beforeCloseRef, hookRuns), "close")
    /\ saveTimeoutRef' = NoTimer
    /\ UNCHANGED <<files, notifs, store, fields, hasCreatedRef, notices>>
    /\ ModalFrame

\* the content of the modal calls forceClose()
ForceClose ==
    /\ modalOpen
    /\ steps < MaxModalOps
    /\ steps' = steps + 1
    /\ Closing(forceClose(beforeCloseRef, hookRuns), "forceClose")
    /\ saveTimeoutRef' = NoTimer
    /\ UNCHANGED <<files, notifs, store, fields, hasCreatedRef, notices>>
    /\ ModalFrame

\* cache.addEvent settles for one save: submit marks the latch or shows a
\* Notice, then calls closeModal(), whose close() runs the registered
\* saveImmediately before performSave of this save sets the latch; the modal
\* closes when no new save was started, or when a close() waited for this one
AddEventSettles ==
    /\ \E save \in saves, io \in {"ok", "writeFails"} :
       \E r \in {Cache_addEvent(World, store, ModalCalendar,
                                 [title |-> save.data.title, date |-> save.data.date,
                                  id |-> ""], io)} :
       \E s \in {StartSave(FormData, IF r.res = "ok" THEN TRUE ELSE hasCreatedRef,
                            TRUE, saves \ {save}, addCalls)} :
          /\ files' = r.files
          /\ notifs' = r.notifs
          /\ store' = r.store
          /\ notices' = IF r.res = "ok" THEN notices ELSE notices + 1
          /\ hookRuns' = close(beforeCloseRef, hookRuns).hookRuns
          /\ saves' = s.saves
          /\ addCalls' = s.calls
          /\ hasCreatedRef' = TRUE
          /\ modalOpen' = (modalOpen /\ s.started /\ ~save.closes)
          /\ last' = Op("addEvent", r.res, NoId, ModalCalendar, r.trace)
    /\ saveTimeoutRef' = NoTimer
    /\ UNCHANGED <<steps, fields>>
    /\ ModalFrame

NextModal ==
    \/ EditField
    \/ TimerFires
    \/ PickColour
    \/ FormSubmit
    \/ CloseRequest
    \/ ForceClose
    \/ AddEventSettles

SpecModal == InitModal /\ [][NextModal]_vars

-----------------------------------------------------------------------------
(* Edit modal: EditEvent over an event of the cache, and a modal whose      *)
(* content registers no function                                            *)

MaxEditOps == 3

\* a timeout of setTimeout: the data and the calendar that the performSave
\* of the render that armed it will submit; n tells the timeouts apart
Timeout(data, cal, n) ==
    [title |-> data.title, date |-> data.date, cal |-> cal, n |-> n, armed |-> TRUE]

\* an autoSave that does not clear the timeout it replaces
autoSave_keepsPending(pendingTimers, ref, data, cal, n) ==
    [timers |-> pendingTimers \cup {Timeout(data, cal, n)},
     ref |-> Timeout(data, cal, n)]

\* autoSave: clearTimeout of saveTimeoutRef.current, then setTimeout
autoSave(pendingTimers, ref, data, cal, n) ==
    [timers |-> (pendingTimers \ {ref}) \cup {Timeout(data, cal, n)},
     ref |-> Timeout(data, cal, n)]

\* a performSave of an edit modal that awaits submit: submit first awaits
\* cache.moveEventToCalendar when the calendar is not the one the modal was
\* launched with, then cache.updateEventWithId
EditSave(data, cal, closes, by, n) ==
    [data |-> data, cal |-> cal, closes |-> closes, by |-> by, n |-> n,
     phase |-> IF cal # editing.cal THEN "move" ELSE "update"]

\* performSave called from a handler, a timer or the function registered
\* with the modal
StartEditSave(data, cal, closes, by, n, pendingSaves) ==
    IF performSave(data, hasCreatedRef)
    THEN pendingSaves \cup {EditSave(data, cal, closes, by, n)}
    ELSE pendingSaves

\* the vault when the modal is launched: an event S of calendar A
EditInitialVaults ==
    {(<<"A", "/", "d1 S.md">> :> [ok |-> TRUE, title |-> "S", date |-> "d1"])}

\* launchEditModal for an event of calendar A of a populated cache, or a
\* ReactModal whose content registers nothing (the Add Calendar modal of
\* the settings)
InitEdit ==
    /\ files \in EditInitialVaults
    /\ notifs = <<>>
    /\ store = PopulateAll(files, <<>>, LocalCals)
    /\ populated = TRUE
    /\ gcal = <<>>
    /\ ical = {}
    /\ upstream = [c \in RemoteCals |-> {}]
    /\ steps = 0
    /\ sources = DefaultSources
    /\ calendars = Cache_reset(DefaultSources, TRUE)
    /\ generation = 0
    /\ populating = FALSE
    /\ pending = {}
    /\ script = <<>>
    /\ modalOpen = TRUE
    /\ hasCreatedRef = FALSE
    /\ saveTimeoutRef = NoTimer
    /\ saves = {}
    /\ addCalls = 0
    /\ notices = 0
    /\ hookRuns = 0
    /\ timers = {}
    /\ \/ \E id \in DOMAIN store :
             /\ store[id].cal = "A"
             /\ store[id].event.title = "S"
             /\ editing = [id |-> id, cal |-> store[id].cal]
             /\ fields = [title |-> store[id].event.title, date |-> store[id].event.date]
             /\ calendarIndex = store[id].cal
             /\ beforeCloseRef = TRUE
             /\ last = Op("launchEditModal", "ok", id, store[id].cal, <<>>)
       \/ /\ editing = NoEdit
          /\ fields = [title |-> "", date |-> ""]
          /\ calendarIndex = ""
          /\ beforeCloseRef = FALSE
          /\ last = Op("openModal", "ok", NoId, "", <<>>)
    /\ NoCleanup
    /\ NoColours
    /\ NoAuth

\* what a step of the edit modal leaves alone
EditFrame ==
    UNCHANGED <<populated, gcal, ical, editing, lifecycle, hasCreatedRef, addCalls,
                beforeCloseRef, cleanup, colours, auth, authFlow>>

\* Modal.close(): onClose unmounts the content, whose effect clears the
\* timeout of saveTimeoutRef.current
doActualClose(pendingTimers, ref) == pendingTimers \ {ref}

\* wrapChange of the title: the setter, then the autoSave of the render the
\* handler belongs to, whose performSave holds the data of that render
WrapChange ==
    /\ modalOpen
    /\ ~isCreate
    /\ steps < MaxEditOps
    /\ steps' = steps + 1
    /\ \E ti \in Titles \ {fields.title} : fields' = [fields EXCEPT !.title = ti]
    /\ \E a \in {autoSave(timers, saveTimeoutRef, FormData, calendarIndex, steps')} :
          /\ timers' = a.timers
          /\ saveTimeoutRef' = a.ref
    /\ last' = Op("wrapChange", "ok", editing.id, calendarIndex, <<>>)
    /\ UNCHANGED <<files, notifs, store, upstream, modalOpen, saves, notices, hookRuns,
                   calendarIndex>>
    /\ EditFrame

\* the user selects a calendar: setCalendarIndex, then autoSave
SelectCalendar ==
    /\ modalOpen
    /\ ~isCreate
    /\ steps < MaxEditOps
    /\ steps' = steps + 1
    /\ \E c \in ModalCalendars \ {calendarIndex} : calendarIndex' = c
    /\ \E a \in {autoSave(timers, saveTimeoutRef, FormData, calendarIndex, steps')} :
          /\ timers' = a.timers
          /\ saveTimeoutRef' = a.ref
    /\ last' = Op("selectCalendar", "ok", editing.id, calendarIndex', <<>>)
    /\ UNCHANGED <<files, notifs, store, upstream, modalOpen, fields, saves, notices,
                   hookRuns>>
    /\ EditFrame

\* a timeout fires: the performSave it holds
AutoSaveTimeout ==
    /\ \E t \in timers :
          /\ timers' = timers \ {t}
          /\ saves' = StartEditSave([title |-> t.title, date |-> t.date], t.cal, FALSE,
                                    "timer", t.n, saves)
          /\ last' = Op("timer", "submit", editing.id, t.cal, <<>>)
    /\ UNCHANGED <<files, notifs, store, upstream, steps, modalOpen, fields,
                   saveTimeoutRef, notices, hookRuns, calendarIndex>>
    /\ EditFrame

\* the form is submitted or a colour is picked: saveImmediately of the
\* current render
SaveNow ==
    /\ modalOpen
    /\ ~isCreate
    /\ steps < MaxEditOps
    /\ steps' = steps + 1
    /\ timers' = timers \ {saveTimeoutRef}
    /\ saveTimeoutRef' = NoTimer
    /\ saves' = StartEditSave(FormData, calendarIndex, FALSE, "saveImmediately", steps',
                              saves)
    /\ last' = Op("saveImmediately", "submit", editing.id, calendarIndex, <<>>)
    /\ UNCHANGED <<files, notifs, store, upstream, modalOpen, fields, notices, hookRuns,
                   calendarIndex>>
    /\ EditFrame

\* close() of the modal, from closeModal() or from the host: with a
\* registered function, its saveImmediately, and the actual close waits for
\* it; without one, the actual close
CloseCall(c, n) ==
    /\ hookRuns' = c.hookRuns
    /\ IF c.ranHook
       THEN /\ timers' = timers \ {saveTimeoutRef}
            /\ saveTimeoutRef' = NoTimer
            /\ saves' = StartEditSave(FormData, calendarIndex, TRUE, "close", n, saves)
            /\ modalOpen' = (modalOpen /\ saves' # saves)
       ELSE /\ timers' = doActualClose(timers, saveTimeoutRef)
            /\ saveTimeoutRef' = saveTimeoutRef
            /\ saves' = saves
            /\ modalOpen' = FALSE

\* the user closes the modal
CloseEdit ==
    /\ modalOpen
    /\ steps < MaxEditOps
    /\ steps' = steps + 1
    /\ CloseCall(close(beforeCloseRef, hookRuns), steps')
    /\ last' = Op("close", IF modalOpen' THEN "submit" ELSE "closed", editing.id,
                  calendarIndex, <<>>)
    /\ UNCHANGED <<files, notifs, store, upstream, fields, notices, calendarIndex>>
    /\ EditFrame

\* the Delete Event button: cache.deleteEvent, then closeModal(); an error
\* is shown in a Notice and the modal stays
DeleteFromModal ==
    /\ modalOpen
    /\ ~isCreate
    /\ steps < MaxEditOps
    /\ steps' = steps + 1
    /\ \E io \in {"ok", "writeFails"} :
       \E r \in {Cache_deleteEvent(World, upstream["G"], store, editing.id, io)} :
          /\ files' = r.files
          /\ notifs' = r.notifs
          /\ store' = r.store
          /\ upstream' = [upstream EXCEPT !["G"] = r.up]
          /\ last' = Op("deleteEvent", r.res, editing.id, calendarIndex, r.trace)
          /\ IF r.res = "ok"
             THEN /\ CloseCall(close(beforeCloseRef, hookRuns), steps')
                  /\ notices' = notices
             ELSE /\ notices' = notices + 1
                  /\ UNCHANGED <<timers, saveTimeoutRef, saves, modalOpen, hookRuns>>
    /\ UNCHANGED <<fields, calendarIndex>>
    /\ EditFrame

\* a performSave has ended: the function registered with the modal, when
\* it was the caller, settles, and close() goes on to the actual close
SaveEnds(save) ==
    /\ modalOpen' = (modalOpen /\ ~save.closes)
    /\ timers' = IF modalOpen /\ save.closes
                 THEN doActualClose(timers, saveTimeoutRef) ELSE timers

\* cache.moveEventToCalendar of a submit settles: submit goes on to
\* cache.updateEventWithId, or shows the error in a Notice and returns
MoveSettles ==
    /\ \E save \in saves, io \in {"ok", "renameFails"} :
       \E r \in {Cache_moveEventToCalendar(World, upstream["G"], store, editing.id,
                                            save.cal, io)} :
          /\ save.phase = "move"
          /\ files' = r.files
          /\ notifs' = r.notifs
          /\ store' = r.store
          /\ upstream' = [upstream EXCEPT !["G"] = r.up]
          /\ last' = [Op("moveEventToCalendar", r.res, editing.id, save.cal, r.trace)
                         EXCEPT !.notice = NoticeFor(r.res)]
          /\ IF r.res = "ok"
             THEN /\ saves' = (saves \ {save}) \cup {[save EXCEPT !.phase = "update"]}
                  /\ UNCHANGED <<notices, modalOpen, timers>>
             ELSE /\ saves' = saves \ {save}
                  /\ notices' = notices + 1
                  /\ SaveEnds(save)
    /\ UNCHANGED <<steps, fields, saveTimeoutRef, hookRuns, calendarIndex>>
    /\ EditFrame

\* cache.updateEventWithId of a submit settles: an error is shown in a
\* Notice; submit returns
UpdateSettles ==
    /\ \E save \in saves, io \in {"ok", "renameFails", "rewriteFails"} :
       \E r \in {Cache_updateEventWithId(World, upstream["G"], store, editing.id,
                                          [title |-> save.data.title,
                                           date |-> save.data.date, id |-> ""], io)} :
          /\ save.phase = "update"
          /\ files' = r.files
          /\ notifs' = r.notifs
          /\ store' = r.store
          /\ upstream' = [upstream EXCEPT !["G"] = r.up]
          /\ last' = [Op("updateEventWithId", r.res, editing.id, save.cal, r.trace)
                         EXCEPT !.notice = NoticeFor(r.res)]
          /\ saves' = saves \ {save}
          /\ notices' = IF r.res = "ok" THEN notices ELSE notices + 1
          /\ SaveEnds(save)
    /\ UNCHANGED <<steps, fields, saveTimeoutRef, hookRuns, calendarIndex>>
    /\ EditFrame

NextEdit ==
    \/ WrapChange
    \/ SelectCalendar
    \/ AutoSaveTimeout
    \/ SaveNow
    \/ CloseEdit
    \/ DeleteFromModal
    \/ MoveSettles
    \/ UpdateSettles

SpecEdit == InitEdit /\ [][NextEdit]_vars

-----------------------------------------------------------------------------
(* The command that removes duplicate events from the daily notes *)

\* the longest daily note, and the longest second daily note
MaxLines == 4
MaxLinesOther == 3

\* the lines a daily note is made of: the configured heading, a heading of
\* a higher level, list items, a list item with leading blanks
NoteLines == {"## Cal", "# Other", "- a", "- b", "  - a"}

\* source.heading of the daily note source
DailyHeading == "Cal"

\* line.match(/^(#{1,6})\s+(.+)$/): the number of #, 0 without a match
HeadingLevel(line) ==
    IF line = "## Cal" THEN 2 ELSE IF line = "# Other" THEN 1 ELSE 0

\* headingMatch[2].trim()
HeadingTitle(line) ==
    IF line = "## Cal" THEN "Cal" ELSE IF line = "# Other" THEN "Other" ELSE ""

\* /^\s*-\s+/.test(line)
IsListItem(line) == line \in {"- a", "- b", "  - a"}

\* text.trim()
Trim(line) == IF line = "  - a" THEN "- a" ELSE line

\* the scan of the lines: the indexes of the list items of the section of
\* the heading; the heading again empties the list, a heading of the same or
\* a higher level ends the scan
RECURSIVE SectionLines(_, _, _, _, _, _)
SectionLines(lines, heading, i, inSection, sectionLevel, sectionLines) ==
    IF i > Len(lines) THEN sectionLines
    ELSE IF HeadingLevel(lines[i]) # 0
    THEN IF HeadingTitle(lines[i]) = heading
         THEN SectionLines(lines, heading, i + 1, TRUE, HeadingLevel(lines[i]), <<>>)
         ELSE IF inSection /\ HeadingLevel(lines[i]) <= sectionLevel
         THEN sectionLines
         ELSE SectionLines(lines, heading, i + 1, inSection, sectionLevel, sectionLines)
    ELSE IF inSection /\ IsListItem(lines[i])
    THEN SectionLines(lines, heading, i + 1, inSection, sectionLevel,
                      Append(sectionLines, i))
    ELSE SectionLines(lines, heading, i + 1, inSection, sectionLevel, sectionLines)

\* the loop over the list items of the section with the set of the texts
\* seen so far: the indexes to remove
RECURSIVE ToRemove(_, _, _, _, _)
ToRemove(lines, sectionLines, k, seen, toRemove) ==
    IF k > Len(sectionLines) THEN toRemove
    ELSE LET normalized == Trim(lines[sectionLines[k]])
         IN  IF normalized \in seen
             THEN ToRemove(lines, sectionLines, k + 1, seen,
                           toRemove \cup {sectionLines[k]})
             ELSE ToRemove(lines, sectionLines, k + 1, seen \cup {normalized}, toRemove)

\* lines.filter((_, i) => !toRemove.includes(i))
RECURSIVE FilterLines(_, _, _)
FilterLines(lines, toRemove, i) ==
    IF i > Len(lines) THEN <<>>
    ELSE IF i \in toRemove THEN FilterLines(lines, toRemove, i + 1)
    ELSE <<lines[i]>> \o FilterLines(lines, toRemove, i + 1)

\* the indexes the cleanup removes from one daily note
DuplicatesIn(lines, heading) ==
    LET sectionLines == SectionLines(lines, heading, 1, FALSE, 0, <<>>)
    IN  IF Len(sectionLines) < 2 THEN {}
        ELSE ToRemove(lines, sectionLines, 1, {}, {})

\* the daily note sources of the settings
DailynoteSources(src) == {i \in 1..Len(src) : src[i].type = "dailynote"}

RECURSIVE SumOver(_, _)
SumOver(f, S) ==
    IF S = {} THEN 0
    ELSE LET x == CHOOSE y \in S : TRUE IN f[x] + SumOver(f, S \ {x})

\* cleanupDuplicateDailyNoteEvents: the notes it leaves and what it returns
cleanupDuplicateDailyNoteEvents(notes, src) ==
    IF DailynoteSources(src) = {}
    THEN [notes |-> notes, filesCleaned |-> 0, duplicatesRemoved |-> 0]
    ELSE LET toRemove == [f \in DOMAIN notes |-> DuplicatesIn(notes[f], DailyHeading)]
             removed == [f \in DOMAIN notes |-> Cardinality(toRemove[f])]
         IN  [notes |-> [f \in DOMAIN notes |-> FilterLines(notes[f], toRemove[f], 1)],
              filesCleaned |-> Cardinality({f \in DOMAIN notes : toRemove[f] # {}}),
              duplicatesRemoved |-> SumOver(removed, DOMAIN notes)]

\* the contents of a daily note of at most n lines
RECURSIVE NoteContents(_)
NoteContents(n) ==
    IF n = 0 THEN {<<>>}
    ELSE LET shorter == NoteContents(n - 1)
         IN  shorter \cup {Append(c, l) : c \in {s \in shorter : Len(s) = n - 1},
                                           l \in NoteLines}

\* the vault holds two daily notes; the settings have a daily note source or
\* none
InitCleanup ==
    /\ files = <<>>
    /\ notifs = <<>>
    /\ store = <<>>
    /\ populated = FALSE
    /\ gcal = <<>>
    /\ ical = {}
    /\ upstream = [c \in RemoteCals |-> {}]
    /\ editing = NoEdit
    /\ steps = 0
    /\ last = Op("init", "ok", NoId, "", <<>>)
    /\ sources \in {DefaultSources, ReducedSources}
    /\ calendars = Cache_reset(sources, TRUE)
    /\ generation = 0
    /\ populating = FALSE
    /\ pending = {}
    /\ script = <<>>
    /\ NoCreateModal
    /\ \E c1 \in NoteContents(MaxLines), c2 \in NoteContents(MaxLinesOther) :
          dailyNotes = [f \in {"n1", "n2"} |-> IF f = "n1" THEN c1 ELSE c2]
    /\ notesBefore = <<>>
    /\ cleanupResult = NoResult
    /\ NoColours
    /\ NoAuth

\* the command "Clean up duplicate events in daily notes"
RunCleanup ==
    /\ \E r \in {cleanupDuplicateDailyNoteEvents(dailyNotes, sources)} :
          /\ dailyNotes' = r.notes
          /\ cleanupResult' = [filesCleaned |-> r.filesCleaned,
                               duplicatesRemoved |-> r.duplicatesRemoved,
                               ran |-> TRUE]
    /\ notesBefore' = dailyNotes
    /\ last' = Op("cleanup", "ok", NoId, "", <<>>)
    /\ UNCHANGED <<files, notifs, store, populated, gcal, ical, upstream, editing,
                   steps, lifecycle, createModal, colours, auth, editModal, authFlow>>

NextCleanup == RunCleanup

SpecCleanup == InitCleanup /\ [][NextCleanup]_vars

\* the list items of the section that repeat the list item before them
ConsecutiveDuplicates(lines, heading) ==
    LET sectionLines == SectionLines(lines, heading, 1, FALSE, 0, <<>>)
    IN  {sectionLines[k] : k \in {j \in 2..Len(sectionLines) :
            Trim(lines[sectionLines[j]]) = Trim(lines[sectionLines[j - 1]])}}

\* C26: the cleanup leaves each daily note as it found it but for list items
\* of the section of the configured heading that repeat the list item
\* immediately before them in that section, and duplicatesRemoved is the
\* number of lines removed over all the files
C26_OnlyConsecutiveRemoved ==
    cleanupResult.ran =>
       /\ \A f \in DOMAIN dailyNotes :
             \E rm \in SUBSET ConsecutiveDuplicates(notesBefore[f], DailyHeading) :
                dailyNotes[f] = FilterLines(notesBefore[f], rm, 1)
       /\ cleanupResult.duplicatesRemoved =
             SumOver([f \in DOMAIN dailyNotes |->
                        Len(notesBefore[f]) - Len(dailyNotes[f])], DOMAIN dailyNotes)

-----------------------------------------------------------------------------
(* The colour of an event on its way to the Google calendar and back *)

\* writes to the Google calendar in one run
MaxWrites == 2

\* event.color; "" is an event without a colour
EventColours == {"", "red", "blue"}

\* the events the cache writes: all-day events, single or recurring
ColourEvents ==
    [title : Titles, date : Dates, type : {"single", "recurring"}, color : EventColours]

\* an event of the server; ofcColor is extendedProperties.private.ofcColor,
\* "" when the event has none
ServerEvent(id, summary, start, ofcColor) ==
    [id |-> id, summary |-> summary, start |-> start, ofcColor |-> ofcColor]

\* ofcToGoogleEvent with the start and the colour; a field that the body
\* does not have is ""; an event that is not single gets its summary only
ofcToGoogleEventBody(event) ==
    IF event.type # "single"
    THEN [summary |-> event.title, start |-> "", ofcColor |-> ""]
    ELSE [summary |-> event.title, start |-> event.date, ofcColor |-> event.color]

\* googleEventToOFC with the colour: no event without summary and start,
\* the colour only when the server event has one
googleEventToOFCEvent(gEvent) ==
    IF gEvent.summary = "" /\ gEvent.start = "" THEN NothingWritten
    ELSE IF gEvent.start = "" THEN NothingWritten
    ELSE [id |-> gEvent.id,
          title |-> IF gEvent.summary = "" THEN "(No title)" ELSE gEvent.summary,
          type |-> "single",
          color |-> gEvent.ofcColor,
          ok |-> TRUE]

\* POST of the body: the server stores an event that has a start
PostEvent(server, body, newId, apiOk) ==
    IF ~apiOk \/ body.start = "" \/ \E g \in server : g.id = newId
    THEN [ok |-> FALSE, server |-> server, id |-> ""]
    ELSE [ok |-> TRUE, id |-> newId,
          server |-> server \cup {ServerEvent(newId, body.summary, body.start,
                                              body.ofcColor)}]

\* PATCH of the body: the server replaces the fields the body has and keeps
\* the others
PatchEvent(server, googleEventId, body, apiOk) ==
    IF ~apiOk \/ ~\E g \in server : g.id = googleEventId
    THEN [ok |-> FALSE, server |-> server]
    ELSE [ok |-> TRUE,
          server |-> {IF g.id # googleEventId THEN g
                      ELSE ServerEvent(g.id,
                                       IF body.summary # "" THEN body.summary ELSE g.summary,
                                       IF body.start # "" THEN body.start ELSE g.start,
                                       IF body.ofcColor # "" THEN body.ofcColor
                                       ELSE g.ofcColor) : g \in server}]

\* what was written, for the comparison with what is read back
Written(id, event, ok) ==
    [id |-> id, title |-> event.title, type |-> event.type, color |-> event.color,
     ok |-> ok]

\* the Google calendar holds no event, or one that another device wrote
InitColours ==
    /\ files = <<>>
    /\ notifs = <<>>
    /\ store = <<>>
    /\ populated = TRUE
    /\ gcal = <<>>
    /\ ical = {}
    /\ upstream = [c \in RemoteCals |-> {}]
    /\ editing = NoEdit
    /\ steps = 0
    /\ last = Op("init", "ok", NoId, "G", <<>>)
    /\ sources = DefaultSources
    /\ calendars = Cache_reset(DefaultSources, TRUE)
    /\ generation = 0
    /\ populating = FALSE
    /\ pending = {}
    /\ script = <<>>
    /\ NoCreateModal
    /\ NoCleanup
    /\ gServer \in {{}} \cup {{ServerEvent("g1", "S", "d1", c)} : c \in EventColours}
    /\ gWritten = NothingWritten
    /\ gRead = NothingRead
    /\ NoAuth

ColoursFrame ==
    UNCHANGED <<files, notifs, store, populated, gcal, ical, upstream, editing,
                lifecycle, createModal, cleanup, auth, editModal, authFlow>>

\* createGoogleEvent(event)
CreateColoured ==
    /\ steps < MaxWrites
    /\ steps' = steps + 1
    /\ \E event \in ColourEvents, newId \in GIds, apiOk \in BOOLEAN :
       \E r \in {PostEvent(gServer, ofcToGoogleEventBody(event), newId, apiOk)} :
          /\ gServer' = r.server
          /\ gWritten' = Written(r.id, event, r.ok)
          /\ last' = Op("createGoogleEvent", IF r.ok THEN "ok" ELSE "Failed to create event",
                        NoId, "G", <<>>)
    /\ gRead' = [gRead EXCEPT !.synced = FALSE]
    /\ ColoursFrame

\* updateGoogleEvent(googleEventId, event) for an event the cache has read
UpdateColoured ==
    /\ steps < MaxWrites
    /\ steps' = steps + 1
    /\ \E event \in ColourEvents, googleEventId \in DOMAIN gRead.events,
          apiOk \in BOOLEAN :
       \E r \in {PatchEvent(gServer, googleEventId, ofcToGoogleEventBody(event), apiOk)} :
          /\ gServer' = r.server
          /\ gWritten' = Written(googleEventId, event, r.ok)
          /\ last' = Op("updateGoogleEvent", IF r.ok THEN "ok" ELSE "Failed to update event",
                        NoId, "G", <<>>)
    /\ gRead' = [gRead EXCEPT !.synced = FALSE]
    /\ ColoursFrame

\* revalidate() and getEvents(): the events of the server, converted; a
\* revalidation that fails leaves what was read
ResyncColours ==
    /\ \E apiOk \in BOOLEAN :
          /\ gRead' = IF apiOk
                      THEN [synced |-> TRUE,
                            events |-> [id \in {g.id : g \in {h \in gServer :
                                              googleEventToOFCEvent(h).ok}} |->
                                          googleEventToOFCEvent(
                                              CHOOSE g \in gServer : g.id = id)]]
                      ELSE gRead
          /\ last' = Op("revalidate", IF apiOk THEN "ok" ELSE "failed", NoId, "G", <<>>)
    /\ UNCHANGED <<steps, gServer, gWritten>>
    /\ ColoursFrame

NextColours ==
    \/ CreateColoured
    \/ UpdateColoured
    \/ ResyncColours

SpecColours == InitColours /\ [][NextColours]_vars

\* C27: after the revalidation that follows a write to Google that
\* succeeded, getEvents() has the written event with the colour it was
\* written with, and without a colour when it was written without one
C27_ColourSurvivesResync ==
    (gWritten.ok /\ gRead.synced) =>
       /\ gWritten.id \in DOMAIN gRead.events
       /\ gRead.events[gWritten.id].color = gWritten.color

-----------------------------------------------------------------------------
(* The Google authorization: its tokens, their refresh and their revocation *)

\* the instants of the clock, and the calls of the service in one run
MaxClock == 3
MaxAuthCalls == 3

\* expires_in of the token endpoint, and the 60 seconds the service
\* subtracts from it, in ticks of the clock
ExpiresIn == {2, 3}
Buffer == 1

Tokens(accessToken, refreshToken, expiresAt) ==
    [present |-> TRUE, accessToken |-> accessToken, refreshToken |-> refreshToken,
     expiresAt |-> expiresAt]

\* get isAuthenticated
isAuthenticated(tokens) == tokens.present /\ tokens.refreshToken # ""

\* a service that takes every stored access token for a valid one
NeedsRefresh_never(now, tokens) == FALSE

\* Date.now() >= this.tokens.expiresAt
NeedsRefresh(now, tokens) == now >= tokens.expiresAt

\* the callback the plugin hands to the service: tokens go to the secret
\* storage and the settings are saved without them, or, when the app has no
\* secret storage or setSecret throws, they go to the settings; empty tokens
\* empty the entry of the storage, a throw of setSecret being ignored, and
\* the settings are saved without tokens
onTokensUpdated(ts, newTokens) ==
    LET written == ts.storage = "present"
        outcome == IF ts.storage = "present" THEN "ok"
                   ELSE IF ts.storage = "failing" THEN "throws" ELSE "none"
        noted == [ts EXCEPT !.updates = Append(@, newTokens), !.write = outcome]
    IN  IF newTokens.refreshToken # "" \/ newTokens.accessToken # 0
        THEN IF written
             THEN [noted EXCEPT !.secret = newTokens, !.disk = NoTokens]
             ELSE [noted EXCEPT !.memory = newTokens, !.disk = newTokens]
        ELSE IF written
             THEN [noted EXCEPT !.secret = NoTokens, !.disk = NoTokens]
             ELSE [noted EXCEPT !.disk = NoTokens]

\* a refreshAccessToken that awaits the token endpoint
RefreshCall(calledAt, n) == [calledAt |-> calledAt, n |-> n]

Answer(op, res, token, calledAt) ==
    [op |-> op, res |-> res, token |-> token, calledAt |-> calledAt]

\* the tokens initGoogleAuth finds: none, or those of an earlier
\* authorization, with or without an access token
LoadedTokens ==
    {NoTokens, Tokens(0, "r1", 0)} \cup {Tokens(v, "r1", v - Buffer) : v \in 1..3}

\* the state after initGoogleAuth: the tokens are in the secret storage, or
\* in the settings when the app has no secret storage or one whose setSecret
\* throws
InitAuth ==
    /\ files = <<>>
    /\ notifs = <<>>
    /\ store = <<>>
    /\ populated = FALSE
    /\ gcal = <<>>
    /\ ical = {}
    /\ upstream = [c \in RemoteCals |-> {}]
    /\ editing = NoEdit
    /\ steps = 0
    /\ last = Op("initGoogleAuth", "ok", NoId, "", <<>>)
    /\ sources = DefaultSources
    /\ calendars = Cache_reset(DefaultSources, TRUE)
    /\ generation = 0
    /\ populating = FALSE
    /\ pending = {}
    /\ script = <<>>
    /\ NoCreateModal
    /\ NoCleanup
    /\ NoColours
    /\ clock = 0
    /\ authFlow = NoFlow
    /\ \E tokens \in LoadedTokens, storage \in {"none", "present", "failing"} :
          /\ authService = [tokens |-> tokens, calls |-> {}, answer |-> NoAnswer]
          /\ tokenStore =
                IF storage = "present"
                THEN [storage |-> storage, secret |-> tokens, memory |-> NoTokens,
                      disk |-> NoTokens, updates |-> <<>>, write |-> "none"]
                ELSE [storage |-> storage, secret |-> NoTokens, memory |-> tokens,
                      disk |-> tokens, updates |-> <<>>, write |-> "none"]

AuthFrame ==
    UNCHANGED <<files, notifs, store, populated, gcal, ical, upstream, editing,
                lifecycle, createModal, cleanup, colours, editModal, authFlow>>

\* time passes
Tick ==
    /\ clock < MaxClock
    /\ clock' = clock + 1
    /\ UNCHANGED <<authService, tokenStore, steps, last>>
    /\ AuthFrame

\* exchangeCodeForTokens at the end of the authorization flow: new tokens,
\* with the refresh token of the answer, or else the one the service has
ExchangeCode ==
    /\ steps < MaxAuthCalls
    /\ steps' = steps + 1
    /\ \E e \in ExpiresIn, refresh \in {"", "r2"} :
          LET tokens == Tokens(clock + e,
                               IF refresh # "" THEN refresh
                               ELSE authService.tokens.refreshToken,
                               clock + e - Buffer)
          IN  /\ authService' = [authService EXCEPT !.tokens = tokens]
              /\ tokenStore' = onTokensUpdated(tokenStore, tokens)
    /\ last' = Op("exchangeCodeForTokens", "ok", NoId, "", <<>>)
    /\ UNCHANGED clock
    /\ AuthFrame

\* getValidAccessToken up to its answer or to the request of the refresh
GetValidAccessToken ==
    /\ steps < MaxAuthCalls
    /\ steps' = steps + 1
    /\ LET tokens == authService.tokens
           op == "getValidAccessToken"
       IN  IF ~tokens.present
           THEN authService' =
                   [authService EXCEPT !.answer = Answer(op, "Not authenticated", 0, clock)]
           ELSE IF ~NeedsRefresh(clock, tokens)
           THEN authService' =
                   [authService EXCEPT !.answer = Answer(op, "ok", tokens.accessToken, clock)]
           ELSE IF tokens.refreshToken = ""
           THEN authService' =
                   [authService EXCEPT !.answer = Answer(op, "No refresh token available",
                                                        0, clock)]
           ELSE authService' =
                   [authService EXCEPT !.calls = @ \cup {RefreshCall(clock, steps)},
                                       !.answer = Answer(op, "refreshing", 0, clock)]
    /\ last' = Op("getValidAccessToken", authService'.answer.res, NoId, "", <<>>)
    /\ UNCHANGED <<clock, tokenStore>>
    /\ AuthFrame

\* the token endpoint answers a refresh: an error, or a new access token
\* that the service stores with the refresh token it has; the service has
\* no tokens any more when revokeAuth ran in between
RefreshArrives ==
    /\ \E call \in authService.calls, e \in ExpiresIn \cup {0} :
          LET op == "refreshAccessToken"
              tokens == Tokens(clock + e, authService.tokens.refreshToken,
                               clock + e - Buffer)
          IN  IF e = 0
              THEN /\ authService' =
                         [authService EXCEPT !.calls = @ \ {call},
                             !.answer = Answer(op, "Token refresh failed", 0, call.calledAt)]
                   /\ UNCHANGED tokenStore
              ELSE IF ~authService.tokens.present
              THEN /\ authService' =
                         [authService EXCEPT !.calls = @ \ {call},
                             !.answer = Answer(op, "TypeError", 0, call.calledAt)]
                   /\ UNCHANGED tokenStore
              ELSE /\ authService' =
                         [tokens |-> tokens, calls |-> authService.calls \ {call},
                          answer |-> Answer(op, "ok", tokens.accessToken, call.calledAt)]
                   /\ tokenStore' = onTokensUpdated(tokenStore, tokens)
    /\ last' = Op("refreshAccessToken", authService'.answer.res, NoId, "", <<>>)
    /\ UNCHANGED <<clock, steps>>
    /\ AuthFrame

\* revokeAuth that gives up when the revocation request fails
revokeAuth_unlessFailed(svc, ts, revoked, now) ==
    IF svc.tokens.accessToken # 0 /\ ~revoked
    THEN [service |-> [svc EXCEPT !.answer = Answer("revokeAuth", "failed", 0, now)],
          store |-> ts]
    ELSE [service |-> [svc EXCEPT !.tokens = NoTokens,
                           !.answer = Answer("revokeAuth", "ok", 0, now)],
          store |-> onTokensUpdated(ts, EmptyTokens)]

\* revokeAuth: the revocation request, sent when there is an access token,
\* may fail, which is logged; the tokens are dropped and the plugin is told
revokeAuth(svc, ts, revoked, now) ==
    [service |-> [svc EXCEPT !.tokens = NoTokens,
                      !.answer = Answer("revokeAuth", "ok", 0, now)],
     store |-> onTokensUpdated(ts, EmptyTokens)]

\* the button "Revoke Authorization"
RevokeAuth ==
    /\ steps < MaxAuthCalls
    /\ steps' = steps + 1
    /\ \E revoked \in BOOLEAN :
       \E r \in {revokeAuth(authService, tokenStore, revoked, clock)} :
          /\ authService' = r.service
          /\ tokenStore' = r.store
          /\ last' = Op("revokeAuth",
                        IF authService.tokens.accessToken = 0 THEN "no request"
                        ELSE IF revoked THEN "revoked" ELSE "revocation failed",
                        NoId, "", <<>>)
    /\ UNCHANGED clock
    /\ AuthFrame

NextAuth ==
    \/ Tick
    \/ ExchangeCode
    \/ GetValidAccessToken
    \/ RefreshArrives
    \/ RevokeAuth

SpecAuth == InitAuth /\ [][NextAuth]_vars

-----------------------------------------------------------------------------
(* The authorization flow: startAuthFlow and its local server *)

MaxFlowOps == 3

\* exchangeCodeForTokens once the token endpoint has answered without an
\* error: the new tokens, with the refresh token of the answer or else the
\* one the service has, are handed to onTokensUpdated
exchangeCodeForTokens(svc, ts, now, e, refresh) ==
    LET tokens == Tokens(now + e,
                         IF refresh # "" THEN refresh ELSE svc.tokens.refreshToken,
                         now + e - Buffer)
    IN  [service |-> [svc EXCEPT !.tokens = tokens],
         store |-> onTokensUpdated(ts, tokens)]

\* resolve() or reject() of the promise startAuthFlow returns: the first
\* call decides
Settle(promise, outcome) == IF promise = "pending" THEN outcome ELSE promise

\* the state after initGoogleAuth, as in InitAuth, before the button
\* "Authorize Google Calendar" is clicked
InitFlow == InitAuth

FlowFrame ==
    UNCHANGED <<files, notifs, store, populated, gcal, ical, upstream, editing,
                lifecycle, createModal, cleanup, colours, editModal, clock>>

\* startAuthFlow: without a client id or a client secret a Notice and
\* nothing else; otherwise the server listens, the browser is opened and
\* the timeout of two minutes is set, or the server fails to listen
StartAuthFlow ==
    /\ authFlow = NoFlow
    /\ \E config \in {"ok", "missing"}, listens \in BOOLEAN :
          /\ authFlow' =
                IF config = "missing"
                THEN [NoFlow EXCEPT !.asked = TRUE, !.promise = "returned"]
                ELSE IF listens
                THEN [NoFlow EXCEPT !.asked = TRUE, !.server = "listening",
                                    !.timer = TRUE, !.promise = "pending"]
                ELSE [NoFlow EXCEPT !.asked = TRUE, !.server = "failed",
                                    !.settled = TRUE, !.promise = "server error"]
          /\ last' = Op("startAuthFlow", config, NoId, "", <<>>)
    /\ UNCHANGED <<authService, tokenStore, steps>>
    /\ FlowFrame

\* a request reaches the handler of the server, on a new connection or on
\* one that was open when the server was closed: nothing when the flow is
\* settled; with an error the flow is settled as denied; with a code the
\* handler awaits exchangeCodeForTokens; any other request is left alone
Request ==
    /\ authFlow.server \in {"listening", "closed"}
    /\ steps < MaxFlowOps
    /\ steps' = steps + 1
    /\ \E kind \in {"error", "code", "other"} :
          /\ authFlow' =
                IF authFlow.settled \/ kind = "other" THEN authFlow
                ELSE IF kind = "error"
                THEN [authFlow EXCEPT !.settled = TRUE, !.server = "closed",
                                      !.promise = Settle(@, "denied")]
                ELSE [authFlow EXCEPT !.exchanges = @ \cup {steps'}]
          /\ last' = Op("request", kind, NoId, "", <<>>)
    /\ UNCHANGED <<authService, tokenStore>>
    /\ FlowFrame

\* the token endpoint answers an exchange: the tokens are stored, the flow
\* is settled, the server closed, the success shown in a Notice and the
\* promise resolved; or the exchange throws, and the flow is settled, the
\* server closed and the promise rejected
ExchangeSettles ==
    /\ \E x \in authFlow.exchanges, e \in ExpiresIn \cup {0}, refresh \in {"", "r2"} :
          IF e = 0
          THEN /\ authFlow' = [authFlow EXCEPT !.exchanges = @ \ {x},
                                   !.settled = TRUE, !.server = "closed",
                                   !.promise = Settle(@, "exchange failed")]
               /\ last' = Op("exchangeCodeForTokens", "Token exchange failed", NoId, "",
                             <<>>)
               /\ UNCHANGED <<authService, tokenStore>>
          ELSE \E r \in {exchangeCodeForTokens(authService, tokenStore, clock, e,
                                                refresh)} :
               /\ authService' = r.service
               /\ tokenStore' = r.store
               /\ authFlow' = [authFlow EXCEPT !.exchanges = @ \ {x},
                                   !.settled = TRUE, !.server = "closed",
                                   !.successes = @ + 1,
                                   !.promise = Settle(@, "resolved")]
               /\ last' = Op("exchangeCodeForTokens", "ok", NoId, "", <<>>)
    /\ UNCHANGED steps
    /\ FlowFrame

\* the timeout of two minutes fires: when the flow is not settled it is
\* now, the server is closed and the promise rejected
TimeoutFires ==
    /\ authFlow.timer
    /\ authFlow' =
          IF authFlow.settled THEN [authFlow EXCEPT !.timer = FALSE]
          ELSE [authFlow EXCEPT !.timer = FALSE, !.settled = TRUE, !.server = "closed",
                                !.promise = Settle(@, "timed out")]
    /\ last' = Op("timeout", IF authFlow.settled THEN "settled" ELSE "timed out", NoId,
                  "", <<>>)
    /\ UNCHANGED <<authService, tokenStore, steps>>
    /\ FlowFrame

NextFlow ==
    \/ StartAuthFlow
    \/ Request
    \/ ExchangeSettles
    \/ TimeoutFires

SpecFlow == InitFlow /\ [][NextFlow]_vars

-----------------------------------------------------------------------------
(* The plugin's settings file and the tokens: onload, saveSettings *)

\* getSettingsForSave: the settings with the three token fields emptied;
\* what it returns for the token fields
getSettingsForSave(settings) == NoTokens

\* a saveData that writes the settings it is given
saveData_asGiven(ts, data) == [ts EXCEPT !.disk = data]

\* saveData of the plugin: an object with calendarSources is replaced by
\* getSettingsForSave() before the host writes the file
saveData(ts, data) == [ts EXCEPT !.disk = getSettingsForSave(ts.memory)]

\* loadSettings: the settings in memory are those of the file
loadSettings(ts) == [ts EXCEPT !.memory = ts.disk]

\* loadGoogleTokensFromStorage: the entry of the secret storage when it
\* holds a refresh token
loadGoogleTokensFromStorage(ts) ==
    IF ts.storage = "none" THEN NoTokens
    ELSE IF ts.secret.refreshToken # "" THEN ts.secret
    ELSE NoTokens

\* saveGoogleTokensToStorage: FALSE without a secret storage or when
\* setSecret throws
saveGoogleTokensToStorage(ts, tokens) ==
    IF ts.storage = "present"
    THEN [ok |-> TRUE, store |-> [ts EXCEPT !.secret = tokens, !.write = "ok"]]
    ELSE [ok |-> FALSE,
          store |-> [ts EXCEPT !.write = IF ts.storage = "failing" THEN "throws"
                                          ELSE "none"]]

\* initGoogleAuth up to the construction of the service: the tokens of the
\* secret storage, or else those of the settings, which are then moved to
\* the secret storage when the app has one, emptied in the settings, and
\* the settings saved
initGoogleAuth(ts) ==
    LET stored == IF ts.storage # "none" THEN loadGoogleTokensFromStorage(ts)
                  ELSE NoTokens
        legacy == ~stored.present /\ ts.memory.refreshToken # ""
        tokens == IF stored.present THEN stored
                  ELSE IF legacy
                  THEN Tokens(ts.memory.accessToken, ts.memory.refreshToken,
                              ts.memory.expiresAt)
                  ELSE NoTokens
    IN  [tokens |-> tokens,
         store |-> IF legacy /\ ts.storage # "none"
                   THEN saveData([saveGoogleTokensToStorage(ts, tokens).store
                                     EXCEPT !.memory = NoTokens],
                                 getSettingsForSave(NoTokens))
                   ELSE ts]

\* onload: loadSettings, then initGoogleAuth
onload(ts) ==
    LET r == initGoogleAuth(loadSettings(ts))
    IN  [service |-> [tokens |-> r.tokens, calls |-> {}, answer |-> NoAnswer],
         store |-> r.store]

\* what the plugin finds when it is loaded: an app with or without a secret
\* storage, or with one whose setSecret throws; a settings file with or
\* without the tokens an earlier version wrote; tokens in the secret
\* storage or none
FoundAtLoad ==
    {[storage |-> storage, secret |-> secret, memory |-> NoTokens, disk |-> disk,
      updates |-> <<>>, write |-> "none"] :
        storage \in {"none", "present", "failing"},
        secret \in {NoTokens, Tokens(1, "r1", 0)},
        disk \in {NoTokens, Tokens(0, "r1", 0), Tokens(1, "r1", 0)}}

\* the state after the first onload
InitTokens ==
    /\ files = <<>>
    /\ notifs = <<>>
    /\ store = <<>>
    /\ populated = FALSE
    /\ gcal = <<>>
    /\ ical = {}
    /\ upstream = [c \in RemoteCals |-> {}]
    /\ editing = NoEdit
    /\ steps = 0
    /\ last = Op("onload", "ok", NoId, "", <<>>)
    /\ sources = DefaultSources
    /\ calendars = Cache_reset(DefaultSources, TRUE)
    /\ generation = 0
    /\ populating = FALSE
    /\ pending = {}
    /\ script = <<>>
    /\ NoCreateModal
    /\ NoCleanup
    /\ NoColours
    /\ clock = 0
    /\ authFlow = NoFlow
    /\ \E found \in FoundAtLoad :
          /\ found.storage = "present" \/ found.secret = NoTokens
          /\ authService = onload(found).service
          /\ tokenStore = onload(found).store

\* the plugin is loaded again: the app restarts, or the plugin is disabled
\* and enabled
Onload ==
    /\ steps < MaxAuthCalls
    /\ steps' = steps + 1
    /\ authService' = onload(tokenStore).service
    /\ tokenStore' = onload(tokenStore).store
    /\ last' = Op("onload", "ok", NoId, "", <<>>)
    /\ UNCHANGED clock
    /\ AuthFrame

\* saveSettings, and the saveData(this.plugin.settings) of the settings
\* tab: the settings in memory go through saveData
SaveSettings ==
    /\ steps < MaxAuthCalls
    /\ steps' = steps + 1
    /\ tokenStore' = saveData(tokenStore, tokenStore.memory)
    /\ last' = Op("saveSettings", "ok", NoId, "", <<>>)
    /\ UNCHANGED <<authService, clock>>
    /\ AuthFrame

NextTokens ==
    \/ Onload
    \/ SaveSettings
    \/ ExchangeCode
    \/ RevokeAuth

SpecTokens == InitTokens /\ [][NextTokens]_vars

\* C21: in one session of the create modal cache.addEvent is called at most
\* once, whatever the interleaving of edits, timer firings, colour picks,
\* form submits, close requests and settling saves, and so at most one event
\* is created
C21_AddEventAtMostOnce ==
    /\ addCalls <= 1
    /\ Cardinality(DOMAIN store) <= 1

\* C22: when cache.addEvent fails in the create modal the user gets the one
\* Notice of that failure, and the closeModal() of the error handler, which
\* runs the registered save, starts no further submit
C22_FailedAddNoSecondSubmit ==
    [][(last'.op = "addEvent" /\ notices' = notices + 1) => addCalls' = addCalls]_vars

\* C23: in every state each record of the Store is owned by a backend that
\* is registered now; a reset leaves no record, so none that is owned by a
\* backend the reset discarded
C23_OwnersRegistered ==
    \A i \in DOMAIN store : store[i].cal \in Range(calendars)

\* C23 witness: the settings were submitted with fewer sources, the reset
\* has discarded the other backends, the cache holds records again and the
\* answer to a call made before the reset has just arrived.
C23_Witness ==
    /\ sources = ReducedSources
    /\ generation >= 1
    /\ store # <<>>
    /\ last.res = "stale"

\* C24: addEvent on a local backend, in every state the cache can be in, for
\* every event: when a file or folder exists at the directory joined with
\* the file name derived from the event, createEvent fails, the vault is as
\* it was and the Store is as it was; otherwise, when the vault accepts the
\* write, exactly one file is created, at that path, and exactly one record
\* is added, owned by the backend, located at that path with no anchor
C24_AddEventOutcome ==
    \A cal \in LocalCals, event \in UserEvents, io \in {"ok", "writeFails"} :
       LET path == joinVaultPath(CalDirectory[cal], filenameForEvent(event))
           r == Cache_addEvent(World, store, cal, event, io)
           added == DOMAIN r.store \ DOMAIN store
       IN  IF getAbstractFileByPath(files, path)
           THEN /\ r.res = "already exists"
                /\ r.files = files
                /\ r.store = store
           ELSE io = "ok" =>
                /\ r.res = "ok"
                /\ DOMAIN r.files = DOMAIN files \cup {path}
                /\ \A q \in DOMAIN files : r.files[q] = files[q]
                /\ Cardinality(added) = 1
                /\ \A i \in DOMAIN store : i \in DOMAIN r.store /\ r.store[i] = store[i]
                /\ \A i \in added :
                      /\ r.store[i].cal = cal
                      /\ r.store[i].loc = [path |-> path, line |-> 0]

\* a record of a local backend whose file is gone, or whose location
\* carries an inline anchor
TargetMissing(F, st, id) ==
    /\ CalType[st[id].cal] = "local"
    /\ \/ ~getFileByPath(F, normalizeVaultPath(st[id].loc.path))
       \/ st[id].loc.line # 0

\* modifyEvent of a local backend on a location of an existing file that
\* carries an inline anchor is rejected before the callback and any write
ModifyInlineRejects ==
    \A id \in DOMAIN store, newEvent \in UserEvents,
       io \in {"ok", "renameFails", "rewriteFails"} :
       (CalType[store[id].cal] = "local"
          /\ getFileByPath(files, normalizeVaultPath(store[id].loc.path))) =>
          LET r == modifyEvent(World, store, [path |-> store[id].loc.path, line |-> 1],
                               newEvent, [id |-> id, cal |-> store[id].cal], io)
          IN  /\ r.res = "Note calendar cannot handle inline events."
              /\ r.trace = <<>>
              /\ r.files = files
              /\ r.notifs = notifs
              /\ r.store = store

\* C25: in every state the cache can be in, updating a record of a local
\* backend whose file no longer exists, or whose location has an inline
\* anchor, is rejected before the location callback and before any rename or
\* rewrite: no call is made, the vault is as it was, and the Store, with the
\* location and the event of the record, is as it was; so is an update at
\* an anchored location of an existing file
C25_ModifyMissingRejects ==
    /\ ModifyInlineRejects
    /\ \A id \in DOMAIN store, newEvent \in UserEvents,
       io \in {"ok", "renameFails", "rewriteFails"} :
       TargetMissing(files, store, id) =>
          LET r == Cache_updateEventWithId(World, upstream["G"], store, id, newEvent, io)
          IN  /\ r.res \in {"File either doesn't exist or is a folder.",
                            "Note calendar cannot handle inline events."}
              /\ r.trace = <<>>
              /\ r.files = files
              /\ r.notifs = notifs
              /\ r.store = store

\* C25 witness: an update of a record of a local backend was rejected
\* because its file does not exist; the record is still in the Store.
C25_Witness ==
    /\ last.op = "updateEventWithId"
    /\ last.res = "File either doesn't exist or is a folder."
    /\ last.trace = <<>>
    /\ last.id \in DOMAIN store
    /\ TargetMissing(files, store, last.id)

\* a step that is a call of getValidAccessToken
IsTokenCall == steps' = steps + 1 /\ last'.op = "getValidAccessToken"

\* a step in which the token endpoint has answered a refresh with a token
IsRefreshed ==
    /\ authService'.calls # authService.calls
    /\ authService'.calls \subseteq authService.calls
    /\ authService'.answer.res = "ok"

\* C28: getValidAccessToken fails when the service has no tokens; it
\* refreshes, and does not answer with the stored token, whenever the clock
\* has reached expiresAt; a token it answers with, at once or after the
\* refresh, was accepted by the server at the instant of the call; a refresh
\* keeps the refresh token, replaces the access token and the expiry, and
\* hands the new tokens to onTokensUpdated once
C28_ValidAccessToken ==
    [][/\ (IsTokenCall /\ ~authService.tokens.present) =>
             /\ authService'.answer.res = "Not authenticated"
             /\ authService'.calls = authService.calls
       /\ (IsTokenCall /\ authService.tokens.present
             /\ clock >= authService.tokens.expiresAt) =>
             /\ authService'.answer.res # "ok"
             /\ \/ authService'.calls # authService.calls
                \/ authService'.answer.res = "No refresh token available"
       /\ (IsTokenCall \/ IsRefreshed) =>
             (authService'.answer.res = "ok" =>
                authService'.answer.token > authService'.answer.calledAt)
       /\ IsRefreshed =>
             /\ authService'.tokens.refreshToken = authService.tokens.refreshToken
             /\ authService'.tokens.accessToken = authService'.answer.token
             /\ authService'.tokens.accessToken > clock
             /\ authService'.tokens.expiresAt = authService'.tokens.accessToken - Buffer
             /\ tokenStore'.updates = Append(tokenStore.updates, authService'.tokens)
      ]_vars

\* C28 witness: a call found the stored access token expired, the refresh
\* has been answered, and the caller has the new token.
C28_Witness ==
    /\ last.op = "refreshAccessToken" /\ last.res = "ok"
    /\ authService.answer.res = "ok"
    /\ authService.answer.token = authService.tokens.accessToken
    /\ authService.answer.calledAt >= 1
    /\ Len(tokenStore.updates) = 1

\* a step that is a call of revokeAuth
IsRevoke == steps' = steps + 1 /\ last'.op = "revokeAuth"

C30_ForceCloseSkipsHook ==
    [][/\ (steps' = steps + 1 /\ last'.op = "forceClose") =>
             /\ ~modalOpen'
             /\ hookRuns' = hookRuns
             /\ addCalls' = addCalls
             /\ saves' = saves
       /\ (steps' = steps + 1 /\ last'.op = "close") =>
             /\ hookRuns' = hookRuns + 1
             /\ ~modalOpen' => saves' = saves
      ]_vars

\* C30 witness: the form holds an event that was not saved and the latch is
\* not set, so that close() would have saved it; forceClose() has closed the
\* modal, no save was started and the registered function did not run.
C30_Witness ==
    /\ last.op = "forceClose"
    /\ ~modalOpen
    /\ performSave(FormData, hasCreatedRef)
    /\ hookRuns = 0
    /\ addCalls = 0

\* the performSave has started in this step
SaveStarted(s) == s \in saves' /\ \A s2 \in saves : s2.n # s.n

\* the performSave has ended in this step
SaveEnded(s) == s \in saves /\ \A s2 \in saves' : s2.n # s.n

ClosedAfterFailure ==
    ~modalOpen /\ hookRuns = 1 /\ last.op = "updateEventWithId" /\ last.res # "ok"

\* a modal without a registered function has closed
ClosedWithoutHook == ~modalOpen /\ ~beforeCloseRef /\ last.op = "close"

\* the event the modal edits is no longer in the store
EventDeleted == editing # NoEdit /\ editing.id \notin DOMAIN store

\* C32: once the event was deleted from the edit modal, the save of the
\* close() that follows calls no cache.updateEventWithId and shows no Notice
C32_NoSaveAfterDelete ==
    [][(EventDeleted /\ \E s \in saves : s.by = "close" /\ SaveEnded(s)) =>
          (last'.op # "updateEventWithId" /\ notices' = notices)]_vars

\* C33: the save that a timeout starts submits the form as it is after the
\* edit that armed the timeout
C33_TimerSavesLatestEdit ==
    [][\A s \in saves' :
          (SaveStarted(s) /\ s.by = "timer") =>
             (s.data = FormData' /\ s.cal = calendarIndex')]_vars

\* C34: at most one timeout is pending after every step; none is pending
\* after a saveImmediately, after the modal has closed, and after a timeout
\* has fired, so that the edits made before it fires cause one save
C34_OneTimerPending ==
    [][/\ Cardinality(timers') <= 1
       /\ (steps' = steps + 1 /\ last'.op = "saveImmediately") => timers' = {}
       /\ ~modalOpen' => timers' = {}
       /\ (\E s \in saves' : SaveStarted(s) /\ s.by = "timer") =>
             (timers' = {} /\ Cardinality({s \in saves' : SaveStarted(s)}) = 1)
      ]_vars

\* C34 witness: two edits were made and no timeout has fired: the timeout
\* of the second edit is the one that is pending
C34_Witness ==
    /\ modalOpen
    /\ steps = 2
    /\ last.op \in {"wrapChange", "selectCalendar"}
    /\ saves = {}
    /\ hookRuns = 0
    /\ \E tm \in timers : tm.n = 2 /\ timers = {tm}

\* a save of the modal has moved the event to another calendar
MovedByModal ==
    /\ editing # NoEdit
    /\ editing.id \in DOMAIN store
    /\ store[editing.id].cal # editing.cal

\* C35: once a save of the modal has moved the event to the calendar that
\* was selected, a save that starts for that calendar calls
\* cache.updateEventWithId and not cache.moveEventToCalendar
C35_NoSecondMove ==
    [][MovedByModal =>
          \A s \in saves' :
             (SaveStarted(s) /\ s.cal = store[editing.id].cal) => s.phase = "update"]_vars

\* the flow is settled by a denial, a success, a failed exchange or the
\* timeout
FlowDecided ==
    /\ authFlow.settled
    /\ authFlow.promise \in {"denied", "resolved", "exchange failed", "timed out"}

\* C36: once the flow is decided the server is closed, and no step starts
\* an exchange, changes the tokens of the service or what is stored of
\* them, or shows the success; without a client id or a client secret no
\* server is started
C36_FlowDecidedOnce ==
    [][/\ FlowDecided =>
             /\ authFlow.server = "closed"
             /\ authFlow'.exchanges \subseteq authFlow.exchanges
             /\ authService'.tokens = authService.tokens
             /\ tokenStore' = tokenStore
             /\ authFlow'.successes = authFlow.successes
       /\ authFlow'.promise = "returned" => authFlow'.server = "none"
      ]_vars

\* an onTokensUpdated of this step has written tokens to the settings file
\* because the write to the secret storage did not succeed
FallbackWrite ==
    /\ last'.op \in {"exchangeCodeForTokens", "refreshAccessToken"}
    /\ tokenStore'.write \in {"throws", "none"}
    /\ Len(tokenStore'.updates) = Len(tokenStore.updates) + 1

\* C37: after saveSettings the settings file holds no tokens; with a secret
\* storage that takes the writes, every step that changes the file leaves
\* it without tokens; tokens get into the file only in the write that
\* onTokensUpdated makes when the secret storage did not take them
C37_NoTokensInSettingsFile ==
    [][/\ (steps' = steps + 1 /\ last'.op = "saveSettings") =>
             tokenStore'.disk = NoTokens
       /\ (tokenStore.storage = "present" /\ tokenStore'.disk # tokenStore.disk) =>
             tokenStore'.disk = NoTokens
       /\ (tokenStore'.disk # NoTokens /\ tokenStore'.disk # tokenStore.disk) =>
             FallbackWrite
      ]_vars

\* C37 witness: the settings in memory hold tokens, those of the fallback,
\* and saveSettings has written the file without them
C37_Witness ==
    /\ last.op = "saveSettings"
    /\ tokenStore.memory.refreshToken # ""
    /\ tokenStore.write = "throws"
    /\ tokenStore.disk = NoTokens

\* C38: while the service has a refresh token, that token is in the secret
\* storage or in the settings file
C38_RefreshTokenPersisted ==
    isAuthenticated(authService.tokens) =>
        \/ tokenStore.secret.refreshToken = authService.tokens.refreshToken
        \/ tokenStore.disk.refreshToken = authService.tokens.refreshToken

====
